---- MODULE Spec2Model ----
(***************************************************************************)
(* NoiseBox: the oracle scheduling engine (oracles.py), the Controller     *)
(* that owns the oracle tree (controller.py) and the Player wrapper that   *)
(* draws songs from it (medialogic/player.py).                             *)
(*                                                                         *)
(* An oracle is a record; current_song and next_song mutate the object in  *)
(* Python, so here they take the oracle and return [o |-> the oracle after *)
(* the call, r |-> the value returned].  Songs are positive integers, the  *)
(* Python None is the value None and an escaping exception is Raise.       *)
(*                                                                         *)
(* Spec: calls on one oracle.  CtlSpec: calls on a Controller, each call   *)
(* one step.  ThreadSpec: the Controller statement by statement, on the    *)
(* console thread and the libvlc event thread.  DevSpec: the audio device  *)
(* snapshots of the Controller.  MuxSpec: the websocket muxer              *)
(* (commandserver/websocket_muxer.py) and one client.  SrvSpec: the        *)
(* command server (commandserver/v1_server.py).  MsgSpec: the Message      *)
(* envelope of the v1 command types.  PageSpec: a client paging through a  *)
(* list that may change between calls.  LibSpec: calls on a MediaLibrary   *)
(* (media_library.py).                                                     *)
(***************************************************************************)
EXTENDS Integers, Sequences, FiniteSets, TLC

\* Longest playlist handed to an oracle.
MaxLen == 2
\* Number of calls made on the oracle under test, and how many of them may be
\* mutator calls (add, clear, set_oracle, interrupt, clear_interrupt).
MaxOps == 5
MaxMut == 3
\* Largest finite `times` of a RepeatingOracle.
MaxTimes == 2
\* Number of calls made on the Controller and its Player, and how many of them
\* may be play, queue or interrupt_with calls.
MaxCalls == 5
MaxCtlMut == 3
\* Number of commands and callbacks the two threads begin.
MaxThreadOps == 3

\* Longest child list of a chain handed to collect, and how many times
\* next_song() is called again after it has returned None.
MaxKids == 3
MaxAfter == 2
\* Most audio output devices libvlc enumerates, and how many times
\* list_devices() is called.
MaxDevices == 2
MaxLists == 2
\* Frames the client sends, register calls made, and events a handler
\* sends during one accept.
MaxFrames == 3
MaxRegs == 2
MaxEvents == 1
\* Number of accept calls made on the MediaServer.
MaxAccepts == 2
\* Number of Message constructions.
MaxMessages == 2
\* Longest list paged through, largest max_length asked for, number of
\* page requests and edits of the list, and how many of them may be edits.
MaxList == 3
MaxPageLen == 2
MaxPageOps == 4
MaxEdits == 1
\* Longest playlist of the media library.
MaxPlaylistLen == 2
\* The longest close reason the protocol carries, in bytes.
ReasonLimit == 125
\* collect() of the tests gets up to 100 songs.
CollectLimit == 100

\* "or None if there are no more songs to play"
None == 0
\* An exception escaping the call (ZeroDivisionError of pointer % len).
Raise == -1

VARIABLES
    under_test,         \* the oracle object under test
    hist,               \* the calls made on it so far: [op, arg, ret]
    interrupt_oracle,   \* Controller.interrupt_oracle, which is Player.current_oracle
    vlc_player,         \* Controller.vlc_player: [mp, manager, attached, playing]
    calls,              \* the calls and events so far: [op, arg, raised, advanced, played]
    pc,                 \* per thread, the statement it is at
    local,              \* per thread, its local variables: [songs, next_song]
    snapshots,          \* every AudioDevices made so far: [devices, valid, released]
    devices,            \* Controller.devices: its place in snapshots
    dev_call,           \* the last device call: [op, snap, index, valid, raised, device]
    servers,            \* WebsocketMuxer.servers: path -> handler, NoServer if none
    session,            \* the handle_session call of the client, NoSession before it
    regs,               \* the number of register calls so far
    controller,         \* MediaServer.controller: [playing_state, throws, calls]
    debug,              \* FLAGS.debug
    srv_calls,          \* the accept calls so far: [frame, debug, before, after, done]
    msg_calls,          \* the Message constructions so far: [op, event, command, done]
    listing,            \* the list a client pages through
    page_calls,         \* the get_output_page calls so far
    library,            \* the MediaLibrary: [song_map, playlists]
    lib_call            \* the last call made on it: [op, song_alias, playlist_name, before, raised, value]

oracleVars == <<under_test, hist>>
ctlVars == <<interrupt_oracle, vlc_player, calls>>
threadVars == <<pc, local>>
devVars == <<snapshots, devices, dev_call>>
\* The variables of the specifications further down.
muxVars == <<servers, session, regs>>
srvVars == <<controller, debug, srv_calls>>
msgVars == <<msg_calls>>
pageVars == <<listing, page_calls>>
libVars == <<library, lib_call>>
typeVars == <<msgVars, pageVars, libVars>>
otherVars == <<devVars, muxVars, srvVars, typeVars>>
notDevVars == <<oracleVars, ctlVars, threadVars, muxVars, srvVars, typeVars>>
notMuxVars == <<oracleVars, ctlVars, threadVars, devVars, srvVars, typeVars>>
notSrvVars == <<oracleVars, ctlVars, threadVars, devVars, muxVars, typeVars>>
treeVars == <<oracleVars, ctlVars, threadVars, devVars, muxVars, srvVars>>
notMsgVars == <<treeVars, pageVars, libVars>>
notPageVars == <<treeVars, msgVars, libVars>>
notLibVars == <<treeVars, msgVars, pageVars>>
vars == <<under_test, hist, interrupt_oracle, vlc_player, calls, pc, local, otherVars>>

Res(o, r) == [o |-> o, r |-> r]

\* F(v), with v computed once however many times F uses it.
With(v, F(_)) == CHOOSE y \in {F(x) : x \in {v}} : TRUE

\* An absent oracle (Python None where an Oracle is expected).
NoOracle == [type |-> "None"]

\* The songs of the playlist with number k: n distinct songs, none shared
\* with another playlist.
Songs(k, n) == [i \in 1..n |-> 10 * k + i]

\* The oracle of _convert_null_oracle: both calls return None.
NullOracle == [type |-> "Null"]

----------------------------------------------------------------------------
(* PlaylistOracle *)

PlaylistOracle(songs) == [type |-> "Playlist", playlist |-> songs, pointer |-> 0]

\* Mutant: a playlist that has run out starts over.
PlaylistOracle_next_song_wraps(o) ==
    LET p == o.pointer + 1
    IN  IF p >= Len(o.playlist) THEN Res([o EXCEPT !.pointer = -1], None)
        ELSE Res([o EXCEPT !.pointer = p], o.playlist[p + 1])

PlaylistOracle_next_song(o) ==
    LET p == o.pointer + 1
        o2 == [o EXCEPT !.pointer = p]
    IN  IF p >= Len(o.playlist) THEN Res(o2, None)
        ELSE Res(o2, o.playlist[p + 1])

PlaylistOracle_current_song(o) ==
    IF o.pointer >= Len(o.playlist) THEN Res(o, None)
    ELSE Res(o, o.playlist[o.pointer + 1])

----------------------------------------------------------------------------
(* RepeatingOracle.  playlist_is_none: the playlist argument was None;     *)
(* forever: times was None; otherwise times holds self.times (times - 1).  *)

RepeatingOracle(songs, playlist_is_none, times, forever) ==
    [type |-> "Repeating", playlist |-> songs, playlist_is_none |-> playlist_is_none,
     times |-> IF forever THEN 0 ELSE times - 1, forever |-> forever, pointer |-> 0]

RepeatingOracle_next_song(o) ==
    IF o.playlist_is_none THEN Res(o, None)
    ELSE LET p == o.pointer + 1
             n == Len(o.playlist)
             wrap == o.forever \/ (p >= n /\ o.times > 0)
         IN  IF wrap /\ n = 0 THEN Res([o EXCEPT !.pointer = p], Raise)
             ELSE LET p2 == IF wrap THEN p % n ELSE p
                      t2 == IF wrap /\ ~o.forever THEN o.times - 1 ELSE o.times
                      o2 == [o EXCEPT !.pointer = p2, !.times = t2]
                  IN  IF p2 >= n THEN Res(o2, None)
                      ELSE Res(o2, o.playlist[p2 + 1])

RepeatingOracle_current_song(o) ==
    IF o.playlist_is_none \/ Len(o.playlist) = 0 \/ o.pointer >= Len(o.playlist)
    THEN Res(o, None)
    ELSE Res(o, o.playlist[o.pointer + 1])

----------------------------------------------------------------------------
(* The composite oracles.  Each extends MemoizingOracle and so carries     *)
(* has_memoized_current_song and memoized_current_song.                    *)

\* Mutant: the chain starts as if it still had to draw its first song.
ChainOracle_not_drawn ==
    [type |-> "Chain", has_memoized_current_song |-> FALSE, memoized_current_song |-> None,
     oracles |-> <<>>, pointer |-> 0, has_drawn_from_oracle |-> FALSE]

ChainOracle ==
    [type |-> "Chain", has_memoized_current_song |-> FALSE, memoized_current_song |-> None,
     oracles |-> <<>>, pointer |-> 0, has_drawn_from_oracle |-> TRUE]

\* Mutant: a new switch does not ignore the first song of its child.
SwitchOracle_first_song_kept ==
    [type |-> "Switch", has_memoized_current_song |-> FALSE, memoized_current_song |-> None,
     oracle |-> NoOracle, has_gathered_from_oracle |-> TRUE, ignore_first_song |-> FALSE]

SwitchOracle ==
    [type |-> "Switch", has_memoized_current_song |-> FALSE, memoized_current_song |-> None,
     oracle |-> NoOracle, has_gathered_from_oracle |-> TRUE, ignore_first_song |-> TRUE]

InterruptOracle(default_oracle) ==
    [type |-> "Interrupt", has_memoized_current_song |-> FALSE, memoized_current_song |-> None,
     default_oracle |-> default_oracle, grabbed_first_song |-> FALSE,
     interrupt_oracle |-> NoOracle]

RECURSIVE next_song(_)
RECURSIVE current_song(_)
RECURSIVE ChainOracle_inner_next_song(_)
RECURSIVE ChainOracle_inner_get_first_song(_)

\* Mutant: moving on to the next child does not reset has_drawn_from_oracle.
ChainOracle_inner_next_song_keeps_drawn(o) ==
    IF o.pointer >= Len(o.oracles) THEN Res(o, None)
    ELSE With(IF o.has_drawn_from_oracle THEN next_song(o.oracles[o.pointer + 1])
              ELSE current_song(o.oracles[o.pointer + 1]),
              LAMBDA cr :
         LET o1 == [o EXCEPT !.oracles[o.pointer + 1] = cr.o]
         IN  IF cr.r = Raise THEN Res(o1, Raise)
             ELSE IF cr.r = None
             THEN ChainOracle_inner_next_song([o1 EXCEPT !.pointer = @ + 1])
             ELSE Res([o1 EXCEPT !.has_drawn_from_oracle = TRUE], cr.r))

\* Mutant: a child that has run out ends the call instead of handing over
\* to the child after it.
ChainOracle_inner_next_song_stops(o) ==
    IF o.pointer >= Len(o.oracles) THEN Res(o, None)
    ELSE With(IF o.has_drawn_from_oracle THEN next_song(o.oracles[o.pointer + 1])
              ELSE current_song(o.oracles[o.pointer + 1]),
              LAMBDA cr :
         LET o1 == [o EXCEPT !.oracles[o.pointer + 1] = cr.o]
         IN  IF cr.r = Raise THEN Res(o1, Raise)
             ELSE IF cr.r = None
             THEN Res([o1 EXCEPT !.pointer = @ + 1, !.has_drawn_from_oracle = FALSE], None)
             ELSE Res([o1 EXCEPT !.has_drawn_from_oracle = TRUE], cr.r))

\* ChainOracle._inner_next_song: one turn of the while loop, then the rest.
ChainOracle_inner_next_song(o) ==
    IF o.pointer >= Len(o.oracles) THEN Res(o, None)
    ELSE With(IF o.has_drawn_from_oracle THEN next_song(o.oracles[o.pointer + 1])
              ELSE current_song(o.oracles[o.pointer + 1]),
              LAMBDA cr :
         LET o1 == [o EXCEPT !.oracles[o.pointer + 1] = cr.o]
         IN  IF cr.r = Raise THEN Res(o1, Raise)
             ELSE IF cr.r = None
             THEN ChainOracle_inner_next_song(
                      [o1 EXCEPT !.pointer = @ + 1, !.has_drawn_from_oracle = FALSE])
             ELSE Res([o1 EXCEPT !.has_drawn_from_oracle = TRUE], cr.r))

\* Mutant: an empty child in front is not looked past.
ChainOracle_inner_get_first_song_no_scan(o) ==
    IF Len(o.oracles) = 0
    THEN Res([o EXCEPT !.oracles = <<PlaylistOracle(<<>>)>>], None)
    ELSE IF o.pointer >= Len(o.oracles) THEN Res(o, None)
    ELSE With(current_song(o.oracles[o.pointer + 1]), LAMBDA cr :
         IF cr.r = None
         THEN Res([o EXCEPT !.oracles = <<PlaylistOracle(<<>>)>> \o @], None)
         ELSE Res([o EXCEPT !.oracles[o.pointer + 1] = cr.o,
                            !.has_drawn_from_oracle = TRUE], cr.r))

ChainOracle_inner_get_first_song(o) ==
    IF Len(o.oracles) = 0
    THEN Res([o EXCEPT !.oracles = <<PlaylistOracle(<<>>)>>], None)
    ELSE IF o.pointer >= Len(o.oracles) THEN Res(o, None)
    ELSE With(current_song(o.oracles[o.pointer + 1]), LAMBDA cr :
         LET i == o.pointer + 1
             o1 == [o EXCEPT !.oracles[i] = cr.o]
         IN  IF cr.r = None
             THEN With(ChainOracle_inner_get_first_song([o1 EXCEPT !.pointer = @ + 1]),
                       LAMBDA rec :
                      IF rec.r # None THEN rec
                      ELSE Res([rec.o EXCEPT !.pointer = @ - 1,
                                             !.oracles = <<PlaylistOracle(<<>>)>> \o @],
                               None))
             ELSE With(current_song(o1.oracles[i]), LAMBDA cr2 :
                      Res([o1 EXCEPT !.oracles[i] = cr2.o, !.has_drawn_from_oracle = TRUE],
                          cr2.r)))

\* Mutant: add drops the oracles already there.
ChainOracle_add_replaces(o, oracle) ==
    IF oracle.type = "None" THEN o
    ELSE [o EXCEPT !.oracles = <<oracle>>]

ChainOracle_add(o, oracle) ==
    IF oracle.type = "None" THEN o
    ELSE [o EXCEPT !.oracles = Append(@, oracle)]

ChainOracle_clear(o) == [o EXCEPT !.oracles = <<>>, !.has_drawn_from_oracle = FALSE]

\* Mutant: the switch always asks its child for the next song.
SwitchOracle_inner_next_song_always_next(o) ==
    IF o.oracle.type = "None" THEN Res(o, None)
    ELSE With(next_song(o.oracle), LAMBDA cr :
             Res([o EXCEPT !.ignore_first_song = FALSE, !.oracle = cr.o], cr.r))

SwitchOracle_inner_next_song(o) ==
    IF o.oracle.type = "None" THEN Res(o, None)
    ELSE IF o.has_gathered_from_oracle \/ o.ignore_first_song
    THEN With(next_song(o.oracle), LAMBDA cr :
             Res([o EXCEPT !.ignore_first_song = FALSE, !.oracle = cr.o], cr.r))
    ELSE With(current_song(o.oracle), LAMBDA cr :
             Res([o EXCEPT !.oracle = cr.o, !.has_gathered_from_oracle = TRUE], cr.r))

SwitchOracle_inner_get_first_song(o) ==
    LET o1 == [o EXCEPT !.ignore_first_song = FALSE]
    IN  IF o.oracle.type = "None" THEN Res(o1, None)
        ELSE With(current_song(o.oracle), LAMBDA cr :
                 Res([o1 EXCEPT !.oracle = cr.o, !.has_gathered_from_oracle = TRUE], cr.r))

\* Mutant: replacing the child leaves has_gathered_from_oracle as it was.
SwitchOracle_set_oracle_keeps_flag(o, oracle) == [o EXCEPT !.oracle = oracle]

SwitchOracle_set_oracle(o, oracle) ==
    [o EXCEPT !.oracle = oracle, !.has_gathered_from_oracle = FALSE]

\* Mutant: once the interrupt is out of songs the default is asked for its
\* current song.
InterruptOracle_fall_through_current(o) ==
    LET o1 == [o EXCEPT !.interrupt_oracle = NoOracle]
    IN  IF o.default_oracle.type = "None" THEN Res(o1, None)
        ELSE With(current_song(o.default_oracle), LAMBDA dr :
                 Res([o1 EXCEPT !.default_oracle = dr.o], dr.r))

\* The tail of InterruptOracle._inner_next_song: drop the interrupt, ask the default.
InterruptOracle_fall_through(o) ==
    LET o1 == [o EXCEPT !.interrupt_oracle = NoOracle]
    IN  IF o.default_oracle.type = "None" THEN Res(o1, None)
        ELSE With(next_song(o.default_oracle), LAMBDA dr :
                 Res([o1 EXCEPT !.default_oracle = dr.o], dr.r))

InterruptOracle_inner_next_song(o) ==
    IF o.interrupt_oracle.type # "None"
    THEN With(IF ~o.grabbed_first_song THEN current_song(o.interrupt_oracle)
              ELSE next_song(o.interrupt_oracle),
              LAMBDA cr :
         LET o1 == [o EXCEPT !.interrupt_oracle = cr.o, !.grabbed_first_song = TRUE]
         IN  IF cr.r = Raise THEN Res([o EXCEPT !.interrupt_oracle = cr.o], Raise)
             ELSE IF cr.r # None THEN Res(o1, cr.r)
             ELSE InterruptOracle_fall_through(o1))
    ELSE InterruptOracle_fall_through(o)

InterruptOracle_inner_get_first_song(o) ==
    IF o.interrupt_oracle.type # "None"
    THEN With(current_song(o.interrupt_oracle), LAMBDA cr :
             Res([o EXCEPT !.interrupt_oracle = cr.o, !.grabbed_first_song = TRUE], cr.r))
    ELSE IF o.default_oracle.type = "None" THEN Res(o, None)
    ELSE With(current_song(o.default_oracle), LAMBDA cr :
             Res([o EXCEPT !.default_oracle = cr.o], cr.r))

InterruptOracle_interrupt(o, oracle) ==
    [o EXCEPT !.interrupt_oracle = oracle, !.grabbed_first_song = FALSE]

InterruptOracle_clear_interrupt(o) == [o EXCEPT !.interrupt_oracle = NoOracle]

\* MemoizingOracle._inner_next_song / _inner_get_first_song, as overridden.
inner_next_song(o) ==
    CASE o.type = "Chain" -> ChainOracle_inner_next_song(o)
      [] o.type = "Switch" -> SwitchOracle_inner_next_song(o)
      [] o.type = "Interrupt" -> InterruptOracle_inner_next_song(o)

inner_get_first_song(o) ==
    CASE o.type = "Chain" -> ChainOracle_inner_get_first_song(o)
      [] o.type = "Switch" -> SwitchOracle_inner_get_first_song(o)
      [] o.type = "Interrupt" -> InterruptOracle_inner_get_first_song(o)

\* Mutant: current_song() asks the subclass every time.
MemoizingOracle_current_song_unmemoized(o) == inner_get_first_song(o)

MemoizingOracle_current_song(o) ==
    IF ~o.has_memoized_current_song
    THEN With(inner_get_first_song(o), LAMBDA ir :
             IF ir.r = Raise THEN ir
             ELSE Res([ir.o EXCEPT !.memoized_current_song = ir.r,
                                   !.has_memoized_current_song = TRUE], ir.r))
    ELSE Res(o, o.memoized_current_song)

MemoizingOracle_next_song(o) ==
    With(inner_next_song(o), LAMBDA ir :
        IF ir.r = Raise THEN ir
        ELSE Res([ir.o EXCEPT !.memoized_current_song = ir.r,
                              !.has_memoized_current_song = TRUE], ir.r))

\* Oracle.next_song / Oracle.current_song, dispatched on the class.
next_song(oracle) ==
    With(oracle, LAMBDA o :
        CASE o.type = "Playlist" -> PlaylistOracle_next_song(o)
          [] o.type = "Repeating" -> RepeatingOracle_next_song(o)
          [] o.type = "Null" -> Res(o, None)
          [] OTHER -> MemoizingOracle_next_song(o))

current_song(oracle) ==
    With(oracle, LAMBDA o :
        CASE o.type = "Playlist" -> PlaylistOracle_current_song(o)
          [] o.type = "Repeating" -> RepeatingOracle_current_song(o)
          [] o.type = "Null" -> Res(o, None)
          [] OTHER -> MemoizingOracle_current_song(o))

\* collect() of oracles_test.py: current_song(), then up to 99 next_song()
\* calls, stopping at the first None.  An exception ends the list with Raise.
RECURSIVE collect_next(_, _, _)
collect_next(oracle, songs, n) ==
    IF n = 0 THEN songs
    ELSE With(next_song(oracle), LAMBDA nr :
             IF nr.r = None THEN songs
             ELSE IF nr.r = Raise THEN Append(songs, Raise)
             ELSE collect_next(nr.o, Append(songs, nr.r), n - 1))

collect(oracle) ==
    With(current_song(oracle), LAMBDA cr : collect_next(cr.o, <<cr.r>>, CollectLimit - 1))

\* A chain to which the given oracles were added in order.
RECURSIVE ChainOf(_)
ChainOf(kids) ==
    IF kids = <<>> THEN ChainOracle
    ELSE ChainOracle_add(ChainOf(SubSeq(kids, 1, Len(kids) - 1)), kids[Len(kids)])

----------------------------------------------------------------------------
(* The media library the Controller resolves names in: three songs, the    *)
(* playlist P of two songs and the empty playlist E.                       *)

song_map == [alias \in {"s1", "s2", "s3"} |->
                CASE alias = "s1" -> 1 [] alias = "s2" -> 2 [] alias = "s3" -> 3]

playlists == [name \in {"P", "E"} |-> IF name = "P" THEN <<"s1", "s2">> ELSE <<>>]

\* MediaLibrary.get: the URIs of a playlist, else of the one song; raised:
\* NotFoundException.
MediaLibrary_get(name) ==
    IF name \in DOMAIN playlists
    THEN [raised |-> FALSE,
          songs |-> [i \in 1..Len(playlists[name]) |-> song_map[playlists[name][i]]]]
    ELSE IF name \in DOMAIN song_map
    THEN [raised |-> FALSE, songs |-> <<song_map[name]>>]
    ELSE [raised |-> TRUE, songs |-> <<>>]

----------------------------------------------------------------------------
(* Player (medialogic/player.py).  mp names the vlc.MediaPlayer object in  *)
(* self.mp (0 is the one made by __init__), manager the MediaPlayer whose  *)
(* event manager self.manager is, attached how many times cb was attached  *)
(* to that manager, playing the URI self.mp plays (None: nothing).         *)

Player == [mp |-> 0, manager |-> 0, attached |-> 0, playing |-> None]

\* What a call did: the player and oracle after it, the values
\* current_oracle.next_song() returned during it, the URIs given to play_song.
Done(player, oracle, advanced, played) ==
    [player |-> player, oracle |-> oracle, advanced |-> advanced, played |-> played]

\* Mutant: the song drawn from the oracle is not played.
Player_next_song_silent(player, oracle) ==
    With(next_song(oracle), LAMBDA r :
        Done([player EXCEPT !.playing = None, !.mp = @ + 1], r.o, <<r.r>>, <<>>))

Player_next_song(player, oracle) ==
    LET stopped == [player EXCEPT !.playing = None]
    IN  IF oracle.type = "None" THEN Done(stopped, oracle, <<>>, <<>>)
        ELSE With(next_song(oracle), LAMBDA r :
             LET p1 == [stopped EXCEPT !.mp = @ + 1]
             IN  IF r.r \in {None, Raise} THEN Done(p1, r.o, <<r.r>>, <<>>)
                 ELSE Done([p1 EXCEPT !.playing = r.r, !.attached = @ + 1],
                           r.o, <<r.r>>, <<r.r>>))

Player_play_oracle(player, oracle) == Player_next_song(player, oracle)

\* The event manager of MediaPlayer `of` delivers MediaPlayerEndReached: every
\* attachment made on it calls cb, that is player.next_song().
RECURSIVE EndReached_dispatch(_, _)
EndReached_dispatch(n, d) ==
    IF n = 0 THEN d
    ELSE With(Player_next_song(d.player, d.oracle), LAMBDA e :
             EndReached_dispatch(n - 1,
                 Done(e.player, e.oracle, d.advanced \o e.advanced, d.played \o e.played)))

\* The media self.mp plays reaches its end: that MediaPlayer stops playing and
\* its own event manager delivers the event.
Player_end_reached(player, oracle) ==
    LET ended == Done([player EXCEPT !.playing = None], oracle, <<>>, <<>>)
    IN  IF player.manager = player.mp THEN EndReached_dispatch(player.attached, ended)
        ELSE ended

----------------------------------------------------------------------------
(* Controller (controller.py).  The tree is interrupt_oracle, whose        *)
(* default is switch_oracle, whose child is queueing_oracle.               *)

\* Controller.__init__
Controller ==
    Player_play_oracle(Player,
        InterruptOracle(SwitchOracle_set_oracle(SwitchOracle, ChainOracle)))

\* Mutant: play adds the songs to the chain already in place.
Controller_play_keeps_chain(player, tree, songs) ==
    LET t1 == [tree EXCEPT !.default_oracle = SwitchOracle_set_oracle(@, @.oracle)]
        t2 == [t1 EXCEPT !.default_oracle.oracle = ChainOracle_add(@, PlaylistOracle(songs))]
    IN  Player_next_song(player, InterruptOracle_clear_interrupt(t2))

Controller_play(player, tree, songs) ==
    LET t1 == [tree EXCEPT !.default_oracle = SwitchOracle_set_oracle(@, ChainOracle)]
        t2 == [t1 EXCEPT !.default_oracle.oracle = ChainOracle_add(@, PlaylistOracle(songs))]
    IN  Player_next_song(player, InterruptOracle_clear_interrupt(t2))

Controller_queue(player, tree, songs) ==
    Done(player,
         [tree EXCEPT !.default_oracle.oracle = ChainOracle_add(@, PlaylistOracle(songs))],
         <<>>, <<>>)

\* The attributes a ChainOracle instance answers to.
ChainOracle_attributes ==
    {"next_song", "current_song", "_inner_next_song", "_inner_get_first_song",
     "add", "clear"}

\* queue_repeat(alias, times): self.queueing_oracle.append(...) looks up
\* `append` on the ChainOracle before the RepeatingOracle is built; a missing
\* attribute ends the call with AttributeError and nothing is changed.
Controller_queue_repeat(player, tree, songs, rep) ==
    IF "append" \in ChainOracle_attributes
    THEN [raised |-> FALSE,
          done |-> Done(player,
                        [tree EXCEPT !.default_oracle.oracle.oracles =
                            Append(@, RepeatingOracle(songs, FALSE, rep.times, rep.forever))],
                        <<>>, <<>>)]
    ELSE [raised |-> TRUE, done |-> Done(player, tree, <<>>, <<>>)]

\* interrupt_with(name): set the Interrupt's interrupt child to
\* Playlist(resolve(name)); kick Player.
Controller_interrupt_with(player, tree, songs) ==
    Player_next_song(player, InterruptOracle_interrupt(tree, PlaylistOracle(songs)))

----------------------------------------------------------------------------
(* AudioDevices: the snapshot of the audio output devices that             *)
(* Controller.list_devices() takes.  The k-th device of the snapshot with  *)
(* number id is the integer 10 * id + k; user_device_map maps the index    *)
(* k - 1 to it.                                                            *)

\* What a device call gives: the exception it raised ("" for none) and the
\* device it returned.
Gave(raised, device) == [raised |-> raised, device |-> device]

\* AudioDevices(audio_device_enum) for a list of n devices.
AudioDevices(n, id) ==
    [user_device_map |-> [k \in 1..n |-> 10 * id + k], valid |-> TRUE, released |-> 0]

\* Mutant: free() releases the list but the snapshot still counts as valid.
AudioDevices_free_stays_valid(o) ==
    IF o.valid THEN [o EXCEPT !.released = @ + 1] ELSE o

AudioDevices_free(o) ==
    IF o.valid THEN [o EXCEPT !.released = @ + 1, !.valid = FALSE] ELSE o

AudioDevices_device_for_index(o, index) ==
    IF ~o.valid THEN Gave("UseAfterFreeException", None)
    ELSE IF index + 1 \in DOMAIN o.user_device_map
         THEN Gave("", o.user_device_map[index + 1])
         ELSE Gave("KeyError", None)

\* list_devices(): free the snapshot held, take a new one of n devices.
Controller_list_devices(snaps, held, n) ==
    [snaps |-> Append([snaps EXCEPT ![held] = AudioDevices_free(@)],
                      AudioDevices(n, Len(snaps) + 1)),
     held |-> Len(snaps) + 1]

\* set_device(device_idx): look the index up in the snapshot held.
Controller_set_device(snaps, held, device_idx) ==
    AudioDevices_device_for_index(snaps[held], device_idx)

----------------------------------------------------------------------------
(* WebsocketMuxer.  A session is the record of one handle_session call:    *)
(* the path and the handler looked up for it, the frames the client has    *)
(* sent and how many the `async for` has taken, where the call is (pc),    *)
(* the accept calls made (log), the close it asked of the transport, and   *)
(* the events the handler handed to ws.send, in order.  A reason is        *)
(* the list of the lengths in bytes of its words.                          *)

\* The paths clients connect to and handlers are registered at; BadPath
\* does not match URL_REGEX.
BadPath == "/test 1"
Paths == {"/test1", "/test2", "/test1/"}

Handlers == {"h1", "h2"}
NoServer == "none"

\* ClientError("this server does not accept binary frames")
BinaryReason == <<4, 6, 4, 3, 6, 6, 6>>
\* The reasons a handler gives its ClientError: "test error", and one of
\* two long words.
Reasons == {<<4, 5>>, <<60, 70>>}

\* len(reason) for a reason of the given words, one space between words.
RECURSIVE Bytes(_)
Bytes(words) ==
    IF words = <<>> THEN 0
    ELSE IF Len(words) = 1 THEN words[1]
    ELSE Bytes(SubSeq(words, 1, Len(words) - 1)) + 1 + words[Len(words)]

\* No handle_session call yet.
NoSession == [pc |-> "none"]

NoClose == [code |-> "", kind |-> "none", path |-> "", words |-> <<>>, trunc |-> FALSE]

\* ws.close(UNSUPPORTED_URI, "path '%s' not found" % (path,))
NotFoundClose(path) ==
    [code |-> "UNSUPPORTED_URI", kind |-> "not found", path |-> path,
     words |-> <<>>, trunc |-> FALSE]

\* ws.close()
NormalClose == [code |-> "NORMAL", kind |-> "none", path |-> "", words |-> <<>>, trunc |-> FALSE]

\* ws.close(BAD_CLIENT, str(e)): the reason goes to the transport as it is.
BadClientClose(words) ==
    [code |-> "BAD_CLIENT", kind |-> "error", path |-> "", words |-> words, trunc |-> FALSE]

\* WebsocketMuxer.register: ValueError for a path that does not match
\* URL_REGEX, else the handler is put at the path, over any handler there.
WebsocketMuxer_register(map, path, server) ==
    IF path \notin Paths THEN [raised |-> TRUE, servers |-> map]
    ELSE [raised |-> FALSE, servers |-> [map EXCEPT ![path] = server]]

\* Mutant: a path with no handler gets the handler of some other path.
WebsocketMuxer_lookup_any(map, path) ==
    IF map[path] # NoServer THEN map[path]
    ELSE IF \E p \in Paths : map[p] # NoServer
         THEN map[CHOOSE p \in Paths : map[p] # NoServer]
         ELSE NoServer

\* self.servers.get(path)
WebsocketMuxer_lookup(map, path) ==
    IF path \in DOMAIN map THEN map[path] ELSE NoServer

\* handle_session up to the frame loop.
handle_session_begin(map, path) ==
    LET server == WebsocketMuxer_lookup(map, path)
    IN  [path |-> path, server |-> server,
         frames |-> <<>>, taken |-> 0, client_closed |-> FALSE,
         pc |-> IF server = NoServer THEN "closed" ELSE "recv",
         close |-> IF server = NoServer THEN NotFoundClose(path) ELSE NoClose,
         log |-> <<>>, sent |-> <<>>]

\* Mutant: the loop takes the newest frame the client sent.
NextFrame_newest(conn) == Len(conn.frames)

\* `async for message in ws`: the frame the loop gets next.
NextFrame(conn) == conn.taken + 1

\* Mutant: a binary frame is handed to accept like a text frame.
handle_session_take_any(conn) ==
    LET n == NextFrame(conn)
    IN  [conn EXCEPT !.taken = n, !.pc = "accept",
                     !.log = Append(@, [frame |-> n, server |-> conn.server,
                                        outcome |-> "running", words |-> <<>>])]

\* One turn of the loop up to the await of accept: a binary frame raises
\* ClientError, which closes the connection; a text frame enters accept.
handle_session_take(conn) ==
    LET n == NextFrame(conn)
    IN  IF conn.frames[n] = "binary"
        THEN [conn EXCEPT !.taken = n, !.pc = "closed",
                          !.close = BadClientClose(BinaryReason)]
        ELSE [conn EXCEPT !.taken = n, !.pc = "accept",
                          !.log = Append(@, [frame |-> n, server |-> conn.server,
                                             outcome |-> "running", words |-> <<>>])]

\* The events a handler sends during accept of frame n: <<n, 1>> .. <<n, k>>.
Events(n, k) == [i \in 1..k |-> <<n, i>>]

\* accept is over, having sent k events: it returned, or raised
\* CloseConnectionException, ClientError(words) or another exception,
\* which no except clause catches and which ends handle_session.
handle_session_accepted(conn, outcome, words, k) ==
    LET at == Len(conn.log)
        c1 == [conn EXCEPT !.log[at].outcome = outcome, !.log[at].words = words,
                           !.sent = @ \o Events(conn.log[at].frame, k)]
    IN  CASE outcome = "return" -> [c1 EXCEPT !.pc = "recv"]
          [] outcome = "CloseConnectionException" ->
                [c1 EXCEPT !.pc = "closed", !.close = NormalClose]
          [] outcome = "ClientError" ->
                [c1 EXCEPT !.pc = "closed", !.close = BadClientClose(words)]
          [] OTHER -> [c1 EXCEPT !.pc = "raised"]

\* The loop is over because the client closed: ws.wait_closed().
handle_session_finish(conn) == [conn EXCEPT !.pc = "finished"]

----------------------------------------------------------------------------
(* MediaServer (commandserver/v1_server.py), as constructed on a           *)
(* controller.  A command is what from_json reads in the frame: whether    *)
(* the frame is JSON at all, the command_name and the payload.  A call     *)
(* ends in Returning(value) or in Raising(the exception class); a response *)
(* is [type, fields], fields being the keyword arguments its dataclass     *)
(* constructor took.                                                       *)

\* What commandserver/command_types_v1.py binds at module level, which is
\* what an attribute of c_types can be: the COMMAND_NAME of each command
\* class, the members of ResponseState and the fields each response
\* dataclass requires (none of them has a default).
c_types ==
    [DEFAULT_PORT |-> [value |-> "98210"],
     SERVING_ADDRESS |-> [value |-> "/noisebox/command_server/v1"],
     Song |-> [fields |-> {"name", "description", "metadata", "local_path"}],
     Playlist |-> [fields |-> {"name", "description", "metadata", "songs"}],
     ResponseState |-> [SUCCESS |-> 0, PENDING |-> 1, USER_ERROR |-> 2,
                        CLIENT_ERROR |-> 3, FAILURE |-> 4, INTERNAL_ERROR |-> 5],
     CommandCls |-> [fields |-> {}],
     Command |-> [fields |-> {"command_name", "payload"}],
     Response |-> [fields |-> {"command_status", "error_message", "error_data"}],
     TogglePlayCommand |-> [COMMAND_NAME |-> "TOGGLE_PLAY"],
     TogglePlayResponse |->
         [fields |-> {"command_status", "error_message", "error_data",
                      "new_play_state"}],
     NextSongCommand |-> [COMMAND_NAME |-> "NEXT_SONG"],
     NextSongResponse |->
         [fields |-> {"command_status", "error_message", "error_data",
                      "current_song"}],
     ListSongsCommand |-> [COMMAND_NAME |-> "LIST_SONGS"],
     ListSongsResponse |->
         [fields |-> {"command_status", "error_message", "error_data",
                      "songs", "page"}],
     ListPlaylistsCommand |-> [COMMAND_NAME |-> "LIST_PLAYLISTS"],
     ListPlaylistCommand |->
         [fields |-> {"command_status", "error_message", "error_data",
                      "playlists", "page"}]]

\* c_types.<name> evaluates; otherwise it raises AttributeError.
HasAttr(name) == name \in DOMAIN c_types

PARAMETERLESS_COMMANDS ==
    {c_types.TogglePlayCommand.COMMAND_NAME, c_types.NextSongCommand.COMMAND_NAME,
     c_types.ListSongsCommand.COMMAND_NAME, c_types.ListPlaylistsCommand.COMMAND_NAME}

NoValue == [type |-> "none"]
Returning(value) == [raised |-> "", value |-> value]
Raising(exc) == [raised |-> exc, value |-> NoValue]

\* command_name is absent from the frame (from_json gives None).
NoName == ""
\* The payloads of a frame: absent, {}, and play_state null, true or false.
Payloads == {"absent", "{}", "null", "true", "false"}
NotJson == [json |-> FALSE, command_name |-> NoName, payload |-> "absent"]
Frames ==
    {NotJson} \cup
    {[json |-> TRUE, command_name |-> n, payload |-> p] :
        n \in {NoName, "TOGGLE_PLAY", "NEXT_SONG", "florbus"}, p \in Payloads}

\* The controller the tests hand to MediaServer: playing_state, whether
\* set_pause and toggle_pause have been replaced by throw_ex, and how many
\* times each has been called.
MockController(playing_state, throws) ==
    [playing_state |-> playing_state, throws |-> throws,
     toggle_pause_calls |-> 0, set_pause_calls |-> 0]

MockController_set_pause(c, pause_state) ==
    IF c.throws
    THEN [c |-> [c EXCEPT !.set_pause_calls = @ + 1], raised |-> "Exception"]
    ELSE [c |-> [c EXCEPT !.set_pause_calls = @ + 1,
                          !.playing_state = ~pause_state],
          raised |-> ""]

MockController_toggle_pause(c) ==
    IF c.throws
    THEN [c |-> [c EXCEPT !.toggle_pause_calls = @ + 1], raised |-> "Exception"]
    ELSE [c |-> [c EXCEPT !.toggle_pause_calls = @ + 1,
                          !.playing_state = ~c.playing_state],
          raised |-> ""]

MockController_playing(c) == c.playing_state

\* The constructor a dataclass generates: every field without a default is
\* required, TypeError otherwise.
Response_init(type, kwargs) ==
    IF c_types[type].fields \subseteq DOMAIN kwargs
    THEN Returning([type |-> type, fields |-> kwargs])
    ELSE Raising("TypeError")

\* kwargs.pop(name, None)
Pop(kwargs, name) == [f \in DOMAIN kwargs \ {name} |-> kwargs[f]]

\* ErrorResponse(error_data_type, **kwargs) while FLAGS.debug is dbg: the
\* keyword arguments go to Response.__init__, error_data popped first when
\* it is debug data and the server does not run in debug.
ErrorResponse_init(dbg, error_data_type, kwargs) ==
    With(IF error_data_type = "DEBUG" /\ ~dbg THEN Pop(kwargs, "error_data")
                                             ELSE kwargs,
         LAMBDA kw :
             With(Response_init("Response", kw), LAMBDA made :
                 IF made.raised # "" THEN made
                 ELSE Returning([made.value EXCEPT !.type = "ErrorResponse"])))

\* raise ErrorResponse(...): the construction may itself raise.
RaiseErrorResponse(made) ==
    IF made.raised # "" THEN made
    ELSE [raised |-> "ErrorResponse", value |-> made.value]

MediaServer_parse_command(dbg, command) ==
    IF ~command.json THEN Raising("JSONDecodeError")
    ELSE IF command.command_name = NoName
    THEN IF ~HasAttr("CommandStatus") THEN Raising("AttributeError")
         ELSE RaiseErrorResponse(ErrorResponse_init(dbg, "DEBUG",
                  [command_status |-> c_types.CommandStatus.CLIENT_ERROR,
                   error_message |-> "Command name must be specified",
                   error_data |-> "command"]))
    ELSE IF ~HasAttr("COMMAND_NAMES") THEN Raising("AttributeError")
    ELSE IF command.command_name \notin c_types.COMMAND_NAMES
    THEN IF ~HasAttr("CommandStatus") THEN Raising("AttributeError")
         ELSE RaiseErrorResponse(ErrorResponse_init(dbg, "DEBUG",
                  [command_status |-> c_types.CommandStatus.CLIENT_ERROR,
                   error_message |-> "Command name is not a valid command",
                   error_data |-> "command"]))
    ELSE IF command.command_name \in PARAMETERLESS_COMMANDS
    THEN Returning(command)
    ELSE IF command.payload = "absent"
    THEN IF ~HasAttr("CommandStatus") THEN Raising("AttributeError")
         ELSE RaiseErrorResponse(ErrorResponse_init(dbg, "DEBUG",
                  [command_status |-> c_types.CommandStatus.CLIENT_ERROR,
                   error_message |-> "Payload expected for command",
                   error_data |-> "command"]))
    ELSE Returning(command)

\* c_types.TogglePlayResponse(new_play_state=self.controller.playing(),
\*                            command_status=c_types.CommandStatus.SUCCESS)
TogglePlayResponse_init(c) ==
    With(MockController_playing(c), LAMBDA new_play_state :
        IF ~HasAttr("CommandStatus") THEN Raising("AttributeError")
        ELSE Response_init("TogglePlayResponse",
                 [new_play_state |-> new_play_state,
                  command_status |-> c_types.CommandStatus.SUCCESS]))

\* TogglePlayCommand.from_dict(command.payload) if command.payload else None:
\* "None" for no request, else the play_state of the request.
PlayRequest(payload) == IF payload \in {"absent", "{}"} THEN "None" ELSE payload

\* toggle_play(play_request): the controller after it, and how it ended.
MediaServer_toggle_play(c, play_request) ==
    With(IF play_request \in {"None", "null"}
         THEN MockController_toggle_pause(c)
         ELSE MockController_set_pause(c, ~(play_request = "true")),
         LAMBDA did :
             [c |-> did.c,
              done |-> IF did.raised # "" THEN Raising(did.raised)
                       ELSE TogglePlayResponse_init(did.c)])

\* The try block of accept.
accept_try(dbg, c, command_str) ==
    With(MediaServer_parse_command(dbg, command_str), LAMBDA parsed :
        IF parsed.raised # "" THEN [c |-> c, done |-> parsed]
        ELSE IF parsed.value.command_name = c_types.TogglePlayCommand.COMMAND_NAME
        THEN MediaServer_toggle_play(c, PlayRequest(parsed.value.payload))
        ELSE [c |-> c, done |-> Returning(NoValue)])

\* "Unexpected error encountered: '%s'" % (e,): the message carries the
\* text of the exception, here the name of its class.
Unexpected(e) == <<"Unexpected error encountered: '%s'", e>>

\* The except clauses of accept and the statement after them.
accept_except(dbg, done) ==
    IF done.raised = "ErrorResponse" THEN Returning(done.value)
    ELSE IF done.raised # ""
    THEN IF ~HasAttr("CommandStatus") THEN Raising("AttributeError")
         ELSE ErrorResponse_init(dbg, "DEBUG",
                  [command_status |-> c_types.CommandStatus.INTERNAL_ERROR,
                   error_message |-> Unexpected(done.raised),
                   error_data |-> "exception"])
    ELSE IF done.value # NoValue THEN done
    ELSE IF ~HasAttr("CommandStatus") THEN Raising("AttributeError")
    ELSE ErrorResponse_init(dbg, "DEBUG",
             [command_status |-> c_types.CommandStatus.INTERNAL_ERROR,
              error_message |-> "Unexpected error encountered."])

\* accept(command_str): the controller after it, and what accept returned
\* or let escape.
MediaServer_accept(dbg, c, command_str) ==
    With(accept_try(dbg, c, command_str), LAMBDA tried :
        [c |-> tried.c, done |-> accept_except(dbg, tried.done)])

----------------------------------------------------------------------------
(* MediaLibrary (media_library.py) as an object that changes: song_map is  *)
(* a function from the aliases added so far to their URIs, playlists a     *)
(* function from the names created so far to lists of aliases.  A call     *)
(* gives [ml |-> the library after it, raised |-> the exception class or   *)
(* "", value |-> what it returned].                                        *)

MediaLibrary == [song_map |-> <<>>, playlists |-> <<>>]

\* d[k] = v
Put(d, k, v) == [x \in DOMAIN d \cup {k} |-> IF x = k THEN v ELSE d[x]]

LibGave(ml, raised, value) == [ml |-> ml, raised |-> raised, value |-> value]

MediaLibrary_add_song(ml, song, expect_overwrite) ==
    IF song.alias \in DOMAIN ml.song_map /\ ~expect_overwrite
    THEN LibGave(ml, "AlreadyExistsException", <<>>)
    ELSE LibGave([ml EXCEPT !.song_map = Put(@, song.alias, song.uri)], "", <<>>)

\* The list returned is a new list: list(self.playlists[playlist_name]).
MediaLibrary_get_playlist(ml, playlist_name) ==
    IF playlist_name \notin DOMAIN ml.playlists
    THEN LibGave(ml, "NotFoundException", <<>>)
    ELSE LibGave(ml, "", ml.playlists[playlist_name])

MediaLibrary_create_playlist(ml, playlist_name, expect_overwrite) ==
    IF playlist_name = "" THEN LibGave(ml, "IllegalArgument", <<>>)
    ELSE IF playlist_name \in DOMAIN ml.playlists /\ ~expect_overwrite
    THEN LibGave(ml, "AlreadyExistsException", <<>>)
    ELSE LibGave([ml EXCEPT !.playlists = Put(@, playlist_name, <<>>)], "", <<>>)

\* add_song_to_playlist that does not look the alias up.
MediaLibrary_add_song_to_playlist_unchecked(ml, song_alias, playlist_name) ==
    IF playlist_name \notin DOMAIN ml.playlists
    THEN LibGave(ml, "NotFoundException", <<>>)
    ELSE LibGave([ml EXCEPT !.playlists[playlist_name] = Append(@, song_alias)],
                 "", <<>>)

MediaLibrary_add_song_to_playlist(ml, song_alias, playlist_name) ==
    IF playlist_name \notin DOMAIN ml.playlists
    THEN LibGave(ml, "NotFoundException", <<>>)
    ELSE IF song_alias \notin DOMAIN ml.song_map
    THEN LibGave(ml, "NotFoundException", <<>>)
    ELSE LibGave([ml EXCEPT !.playlists[playlist_name] = Append(@, song_alias)],
                 "", <<>>)

\* list.remove(x): the list without the first x; ValueError if x is not in it.
RECURSIVE list_remove(_, _)
list_remove(list, x) ==
    IF list = <<>> THEN <<>>
    ELSE IF Head(list) = x THEN Tail(list)
    ELSE <<Head(list)>> \o list_remove(Tail(list), x)

\* self.get_playlist(playlist_name).remove(song_alias): the removal is made
\* on the list get_playlist returned, which is dropped afterwards.
MediaLibrary_remove_from_playlist(ml, song_alias, playlist_name) ==
    With(MediaLibrary_get_playlist(ml, playlist_name), LAMBDA got :
        IF got.raised # "" THEN got
        ELSE IF \A i \in 1..Len(got.value) : got.value[i] # song_alias
        THEN LibGave(ml, "ValueError", <<>>)
        ELSE With(list_remove(got.value, song_alias), LAMBDA removed :
                 LibGave(got.ml, "", <<>>)))

----------------------------------------------------------------------------
(* Paging (get_output_page, page_to_string and string_to_page of           *)
(* commandserver/v1_server.py; mediarpc/server.py has the same three).  A  *)
(* string is the sequence of its characters.  The elements of a list are   *)
(* integers.  hash(tuple(sequence)) is the list of the hashes of the       *)
(* elements: equal for two lists exactly when every element hash is, which *)
(* is the least any combination of them can collide.                       *)

DigitChars == <<"0", "1", "2", "3", "4", "5", "6", "7", "8", "9">>

\* str(n) for an integer n
RECURSIVE Digits(_)
Digits(n) ==
    IF n < 10 THEN <<DigitChars[n + 1]>>
    ELSE Digits(n \div 10) \o <<DigitChars[(n % 10) + 1]>>

Str(n) == IF n < 0 THEN <<"-">> \o Digits(-n) ELSE Digits(n)

\* int(string) for a string of digits
RECURSIVE ParseInt(_)
ParseInt(string) ==
    IF Len(string) = 0 THEN 0
    ELSE 10 * ParseInt(SubSeq(string, 1, Len(string) - 1))
         + (CHOOSE d \in 0..9 : DigitChars[d + 1] = string[Len(string)])

\* hash(x) of an integer of small magnitude: itself, but -2 for -1.
PyHash(x) == IF x = -1 THEN -2 ELSE x

\* str(hash(tuple(sequence)))
RECURSIVE sequence_hash(_)
sequence_hash(sequence) ==
    IF sequence = <<>> THEN <<>>
    ELSE Str(PyHash(Head(sequence))) \o <<",">> \o sequence_hash(Tail(sequence))

\* The two hexadecimal digits of each ASCII character.
HexOf ==
    [c \in {"0", "1", "2", "3", "4", "5", "6", "7", "8", "9", "-", ",", "|"} |->
        CASE c = "-" -> "2d" [] c = "," -> "2c" [] c = "|" -> "7c"
          [] c = "0" -> "30" [] c = "1" -> "31" [] c = "2" -> "32"
          [] c = "3" -> "33" [] c = "4" -> "34" [] c = "5" -> "35"
          [] c = "6" -> "36" [] c = "7" -> "37" [] c = "8" -> "38"
          [] c = "9" -> "39"]

\* bytearray(string, "ascii").hex() and bytearray.fromhex(hex_string).decode()
Hex(string) == [i \in 1..Len(string) |-> HexOf[string[i]]]
FromHex(hex_string) ==
    [i \in 1..Len(hex_string) |-> CHOOSE c \in DOMAIN HexOf : HexOf[c] = hex_string[i]]

NoPage == [type |-> "None"]
\* Page(list_hash, element): element is [int |-> n] or [str |-> digits].
Page(list_hash, element) ==
    [type |-> "Page", list_hash |-> list_hash, element |-> element]

\* int(element) and "%s" % element
IntOf(element) ==
    IF "int" \in DOMAIN element THEN element.int ELSE ParseInt(element.str)
StrOf(element) ==
    IF "int" \in DOMAIN element THEN Str(element.int) ELSE element.str

PageGave(raised, next_page, next_page_token) ==
    [raised |-> raised, page |-> next_page, token |-> next_page_token]

\* sequence[first:stop]
Slice(sequence, first, stop) ==
    SubSeq(sequence, first + 1, IF stop < Len(sequence) THEN stop ELSE Len(sequence))

\* get_output_page without the comparison of the hashes.
get_output_page_unchecked(sequence, max_length, next_page_token) ==
    With(IF next_page_token = NoPage
         THEN Page(sequence_hash(sequence), [int |-> 0]) ELSE next_page_token,
         LAMBDA token :
             With(IntOf(token.element) + max_length, LAMBDA next_page_start :
                 PageGave("", Slice(sequence, IntOf(token.element), next_page_start),
                          IF next_page_start < Len(sequence)
                          THEN Page(sequence_hash(sequence), [int |-> next_page_start])
                          ELSE NoPage)))

\* get_output_page whose token points at the last element of the page.
get_output_page_overlapping(sequence, max_length, next_page_token) ==
    With(IF next_page_token = NoPage
         THEN Page(sequence_hash(sequence), [int |-> 0]) ELSE next_page_token,
         LAMBDA token :
             IF token.list_hash # sequence_hash(sequence)
             THEN PageGave("OutdatedPageException", <<>>, NoPage)
             ELSE With(IntOf(token.element) + max_length, LAMBDA next_page_start :
                 PageGave("", Slice(sequence, IntOf(token.element), next_page_start),
                          IF next_page_start < Len(sequence)
                          THEN Page(sequence_hash(sequence),
                                    [int |-> next_page_start - 1])
                          ELSE NoPage)))

get_output_page(sequence, max_length, next_page_token) ==
    With(IF next_page_token = NoPage
         THEN Page(sequence_hash(sequence), [int |-> 0]) ELSE next_page_token,
         LAMBDA token :
             IF token.list_hash # sequence_hash(sequence)
             THEN PageGave("OutdatedPageException", <<>>, NoPage)
             ELSE With(IntOf(token.element) + max_length, LAMBDA next_page_start :
                 PageGave("", Slice(sequence, IntOf(token.element), next_page_start),
                          IF next_page_start < Len(sequence)
                          THEN Page(sequence_hash(sequence), [int |-> next_page_start])
                          ELSE NoPage)))

page_to_string(page) ==
    IF page = NoPage THEN <<>>
    ELSE Hex(page.list_hash \o <<"|">> \o StrOf(page.element))

\* string.split("|") of a string with one "|": what is before and after it.
Split(string) ==
    With(CHOOSE i \in 1..Len(string) : string[i] = "|", LAMBDA at :
        <<SubSeq(string, 1, at - 1), SubSeq(string, at + 1, Len(string))>>)

string_to_page(hex_string) ==
    IF hex_string = <<>> THEN NoPage
    ELSE With(Split(FromHex(hex_string)), LAMBDA tuple :
             Page(tuple[1], [str |-> tuple[2]]))

----------------------------------------------------------------------------
(* Message (commandserver/server_types/v1_command_types.py), the pydantic  *)
(* model every frame is wrapped in.  A value handed to one of its fields   *)
(* is "None" (absent or null), the name of a command or event class that   *)
(* validates for the field, or "invalid", which fails the field's type.    *)

COMMANDS == {"TogglePlayCommand", "NextSongCommand"}
EVENTS == {"PlayStateEvent", "ErrorEvent"}

\* A model instance is truthy, None is not.
Truthy(v) == v # "None"

\* The validator of `command`, without its second check.
ensure_one_of_command_or_event_set_both_only(v, values) ==
    IF "event" \in DOMAIN values /\ Truthy(values.event) /\ Truthy(v)
    THEN Raising("ValueError")
    ELSE Returning(v)

\* The validator of `command`: v is the validated command, values holds
\* the fields validated before it (event, unless event failed).
ensure_one_of_command_or_event_set(v, values) ==
    IF "event" \in DOMAIN values /\ Truthy(values.event) /\ Truthy(v)
    THEN Raising("ValueError")
    ELSE IF ~("event" \in DOMAIN values /\ Truthy(values.event)) /\ ~Truthy(v)
    THEN Raising("ValueError")
    ELSE Returning(v)

\* Message(event=event, command=command): the fields are validated in the
\* order of their definition, event first; a field that fails its type is
\* left out of `values` and its validators do not run; the construction
\* raises ValidationError if any field or validator failed.
Message_init(event, command) ==
    With(IF event \in EVENTS \cup {"None"} THEN [event |-> event] ELSE <<>>,
         LAMBDA values :
             With(IF command \in COMMANDS \cup {"None"}
                  THEN ensure_one_of_command_or_event_set(command, values)
                  ELSE Raising("TypeError"),
                  LAMBDA checked :
                      IF checked.raised # "" \/ DOMAIN values = {}
                      THEN Raising("ValidationError")
                      ELSE Returning([type |-> "Message", event |-> values.event,
                                      command |-> checked.value])))

\* Command.wrap() and Event.wrap()
Command_wrap(self) == Message_init("None", self)
Event_wrap(self) == Message_init(self, "None")

----------------------------------------------------------------------------
(* The oracle under test: a freshly constructed oracle of any class, then      *)
(* any interleaving of current_song(), next_song() and its mutators.       *)

Lens == 0..MaxLen

\* What a caller may hand to add / set_oracle / interrupt as the k-th oracle.
Children(k) == {NoOracle} \cup {PlaylistOracle(Songs(k, n)) : n \in Lens}

FreshOracles ==
    {PlaylistOracle(Songs(0, n)) : n \in Lens}
    \cup {RepeatingOracle(Songs(0, n), FALSE, t, FALSE) : n \in Lens, t \in 0..MaxTimes}
    \cup {RepeatingOracle(Songs(0, n), FALSE, 0, TRUE) : n \in Lens}
    \cup {RepeatingOracle(<<>>, TRUE, t, FALSE) : t \in 0..MaxTimes}
    \cup {ChainOracle, SwitchOracle}
    \cup {InterruptOracle(d) : d \in {NoOracle, PlaylistOracle(Songs(0, MaxLen))}}

Mutators == {"add", "clear", "set_oracle", "interrupt", "clear_interrupt"}

NMut == Cardinality({i \in 1..Len(hist) : hist[i].op \in Mutators})

\* The number given to the next oracle handed in.
NextK == NMut + 1

Call(op, arg, result) ==
    \E res \in {result} :
    /\ under_test' = res.o
    /\ hist' = Append(hist, [op |-> op, arg |-> arg, ret |-> res.r])
    /\ UNCHANGED <<ctlVars, threadVars, otherVars>>

\* The thread that runs the console commands (main.py: THREAD_POOL.submit of
\* start_local_cli) and the thread on which libvlc calls event callbacks.
Threads == {"console", "vlc"}

\* The Controller as constructed, no call made on it yet, no thread in it.
CtlStart ==
    \E made \in {Controller} :
    /\ interrupt_oracle = made.oracle
    /\ vlc_player = made.player
    /\ calls = <<>>
    /\ pc = [t \in Threads |-> "idle"]
    /\ local = [t \in Threads |-> [songs |-> <<>>, next_song |-> None]]

\* No device call made yet: the snapshot of n devices that
\* Controller.__init__ took.
DevStart(n) ==
    /\ snapshots = <<AudioDevices(n, 1)>>
    /\ devices = 1
    /\ dev_call = [op |-> "new", snap |-> 1, index |-> 0, valid |-> TRUE,
                   raised |-> "", device |-> None]

\* A muxer as constructed: nothing registered, no connection made.
MuxStart ==
    /\ servers = [p \in Paths |-> NoServer]
    /\ session = NoSession
    /\ regs = 0

\* No Message constructed yet.
MsgStart == msg_calls = <<>>

\* The list `sequence` is there, no page of it asked for yet.
PageStart(sequence) ==
    /\ listing = sequence
    /\ page_calls = <<>>

\* A MediaLibrary as constructed: no song, no playlist, no call made.
LibStart ==
    /\ library = MediaLibrary
    /\ lib_call = [op |-> "new", song_alias |-> "", playlist_name |-> "",
                   before |-> MediaLibrary, raised |-> "", value |-> <<>>]

TypeStart == MsgStart /\ PageStart(<<>>) /\ LibStart

\* A MediaServer as constructed, no frame handed to it yet.
SrvStart(playing_state, dbg, throws) ==
    /\ controller = MockController(playing_state, throws)
    /\ debug = dbg
    /\ srv_calls = <<>>

\* The specifications further down at their start.
OtherStart == DevStart(0) /\ MuxStart /\ SrvStart(FALSE, FALSE, FALSE) /\ TypeStart

Init ==
    /\ under_test \in FreshOracles
    /\ hist = <<>>
    /\ CtlStart
    /\ OtherStart

Current ==
    /\ Len(hist) < MaxOps
    /\ Call("current", NoOracle, current_song(under_test))

Advance ==
    /\ Len(hist) < MaxOps
    /\ Call("advance", NoOracle, next_song(under_test))

Add ==
    /\ Len(hist) < MaxOps /\ NMut < MaxMut
    /\ under_test.type = "Chain"
    /\ \E c \in Children(NextK) : Call("add", c, Res(ChainOracle_add(under_test, c), None))

Clear ==
    /\ Len(hist) < MaxOps /\ NMut < MaxMut
    /\ under_test.type = "Chain"
    /\ Call("clear", NoOracle, Res(ChainOracle_clear(under_test), None))

SetOracle ==
    /\ Len(hist) < MaxOps /\ NMut < MaxMut
    /\ under_test.type = "Switch"
    /\ \E c \in Children(NextK) :
           Call("set_oracle", c, Res(SwitchOracle_set_oracle(under_test, c), None))

Interrupt ==
    /\ Len(hist) < MaxOps /\ NMut < MaxMut
    /\ under_test.type = "Interrupt"
    /\ \E c \in Children(NextK) :
           Call("interrupt", c, Res(InterruptOracle_interrupt(under_test, c), None))

ClearInterrupt ==
    /\ Len(hist) < MaxOps /\ NMut < MaxMut
    /\ under_test.type = "Interrupt"
    /\ Call("clear_interrupt", NoOracle, Res(InterruptOracle_clear_interrupt(under_test), None))

Next ==
    \/ Current
    \/ Advance
    \/ Add
    \/ Clear
    \/ SetOracle
    \/ Interrupt
    \/ ClearInterrupt

Spec == Init /\ [][Next]_vars

----------------------------------------------------------------------------
(* collect() on an oracle as built: current_song(), then next_song() until *)
(* it returns None, and a few more next_song() calls after that.  hist[1]  *)
(* holds the oracle as it was built.                                       *)

\* The kinds of child: -1 a NullOracle, n >= 0 a Playlist of n songs.
KidKinds == {-1} \cup Lens

Kid(kind, k) == IF kind = -1 THEN NullOracle ELSE PlaylistOracle(Songs(k, kind))

KidLists ==
    UNION {[1..n -> KidKinds] : n \in 0..MaxKids}

Kids(kinds) == [k \in 1..Len(kinds) |-> Kid(kinds[k], k)]

\* The `times` a RepeatingOracle is built with: few, or more than collect()
\* ever gathers.
RepeatTimes == (0..MaxTimes) \cup {CollectLimit + 1}

CollectInputs ==
    {ChainOf(Kids(kinds)) : kinds \in KidLists}
        \cup {PlaylistOracle(Songs(0, n)) : n \in Lens}
        \cup {RepeatingOracle(Songs(0, n), FALSE, t, FALSE) :
                  n \in Lens, t \in RepeatTimes}

CollectInit ==
    /\ under_test \in CollectInputs
    /\ hist = <<[op |-> "new", arg |-> under_test, ret |-> None]>>
    /\ CtlStart
    /\ OtherStart

\* The values next_song() has returned, in order.
Advanced == [i \in 1..(Len(hist) - 2) |-> hist[i + 2].ret]

\* next_song() has returned None or raised.
Ended == \E i \in 1..Len(Advanced) : Advanced[i] \in {None, Raise}

\* songs = [oracle.current_song()]
CollectCurrent ==
    /\ Len(hist) = 1
    /\ Call("current", None, current_song(under_test))

\* song = oracle.next_song(), while fewer than 100 songs and none was None
CollectNext ==
    /\ Len(hist) >= 2 /\ Len(hist) - 1 < CollectLimit
    /\ ~Ended
    /\ Call("advance", None, next_song(under_test))

\* next_song() called again after it returned None
NextAfterEnd ==
    /\ Ended
    /\ hist[Len(hist)].ret = None
    /\ Cardinality({i \in 1..Len(Advanced) : Advanced[i] = None}) <= MaxAfter
    /\ Call("advance", None, next_song(under_test))

CollectSpecNext ==
    \/ CollectCurrent
    \/ CollectNext
    \/ NextAfterEnd

CollectSpec == CollectInit /\ [][CollectSpecNext]_vars

----------------------------------------------------------------------------
(* The Controller and its Player: play, queue and interrupt_with calls,    *)
(* calls of Player.next_song() (by cb or by the `play` command), and the   *)
(* end of the track that is playing.                                       *)

Names == {"P", "E", "s3", "zz"}

CtlMutators == {"play", "queue", "interrupt_with", "queue_repeat"}

\* The `times` given to queue_repeat: None (forever) or a number.
RepeatArgs ==
    {[times |-> 0, forever |-> TRUE]}
        \cup {[times |-> t, forever |-> FALSE] : t \in 1..MaxTimes}

NCtlMut == Cardinality({i \in 1..Len(calls) : calls[i].op \in CtlMutators})

\* A call that resolved its name and ran to its end.
CtlCall(op, name, done) ==
    \E d \in {done} :
    /\ interrupt_oracle' = d.oracle
    /\ vlc_player' = d.player
    /\ calls' = Append(calls, [op |-> op, arg |-> name, raised |-> FALSE,
                               advanced |-> d.advanced, played |-> d.played])
    /\ UNCHANGED <<oracleVars, threadVars, otherVars>>

\* A call that ended with an exception (NotFoundException from
\* MediaLibrary.get, AttributeError from a missing method).
CtlRaised(op, name) ==
    /\ calls' = Append(calls, [op |-> op, arg |-> name, raised |-> TRUE,
                               advanced |-> <<>>, played |-> <<>>])
    /\ UNCHANGED <<interrupt_oracle, vlc_player, oracleVars, threadVars, otherVars>>

CtlInit ==
    /\ under_test = ChainOracle
    /\ hist = <<>>
    /\ CtlStart
    /\ OtherStart

Play ==
    /\ Len(calls) < MaxCalls /\ NCtlMut < MaxCtlMut
    /\ \E name \in Names :
          LET got == MediaLibrary_get(name)
          IN  IF got.raised THEN CtlRaised("play", name)
              ELSE CtlCall("play", name,
                           Controller_play(vlc_player, interrupt_oracle, got.songs))

Queue ==
    /\ Len(calls) < MaxCalls /\ NCtlMut < MaxCtlMut
    /\ \E name \in Names :
          LET got == MediaLibrary_get(name)
          IN  IF got.raised THEN CtlRaised("queue", name)
              ELSE CtlCall("queue", name,
                           Controller_queue(vlc_player, interrupt_oracle, got.songs))

InterruptWith ==
    /\ Len(calls) < MaxCalls /\ NCtlMut < MaxCtlMut
    /\ \E name \in Names \ {"E"} :
          LET got == MediaLibrary_get(name)
          IN  IF got.raised THEN CtlRaised("interrupt_with", name)
              ELSE CtlCall("interrupt_with", name,
                           Controller_interrupt_with(vlc_player, interrupt_oracle, got.songs))

QueueRepeat ==
    /\ Len(calls) < MaxCalls /\ NCtlMut < MaxCtlMut
    /\ \E name \in Names, rep \in RepeatArgs :
          LET got == MediaLibrary_get(name)
          IN  IF got.raised THEN CtlRaised("queue_repeat", name)
              ELSE \E r \in {Controller_queue_repeat(vlc_player, interrupt_oracle,
                                                     got.songs, rep)} :
                      IF r.raised THEN CtlRaised("queue_repeat", name)
                      ELSE CtlCall("queue_repeat", name, r.done)

\* cb(), or the `play` command, calls Player.next_song().
Kick ==
    /\ Len(calls) < MaxCalls
    /\ CtlCall("next_song", "", Player_next_song(vlc_player, interrupt_oracle))

\* The track that is playing ends.
EndReached ==
    /\ Len(calls) < MaxCalls
    /\ vlc_player.playing # None
    /\ CtlCall("end_reached", "", Player_end_reached(vlc_player, interrupt_oracle))

CtlNext ==
    \/ Play
    \/ Queue
    \/ QueueRepeat
    \/ InterruptWith
    \/ Kick
    \/ EndReached

CtlSpec == CtlInit /\ [][CtlNext]_vars

----------------------------------------------------------------------------
(* Reading the call history. *)

IsObs(e) == e.op \in {"current", "advance"}
NonEmpty(c) == c.type = "Playlist" /\ Len(c.playlist) > 0
EmptyChild(c) == c.type = "Playlist" /\ Len(c.playlist) = 0
SetMax(S) == CHOOSE x \in S : \A y \in S : y <= x
SetMin(S) == CHOOSE x \in S : \A y \in S : x <= y
ObsIdx == {i \in 1..Len(hist) : IsObs(hist[i])}
AdvIdx(lo, hi) == {i \in lo..hi : hist[i].op = "advance"}
Last == hist[Len(hist)]
\* Only calls of the given kinds at positions lo..hi.
Only(ops, lo, hi) == \A i \in lo..hi : hist[i].op \in ops

\* C1: a current_song() call returns what the most recent current_song() or
\* next_song() call returned, whatever mutators were called in between.
C1_MemoizationStable ==
    (Len(hist) > 0 /\ Last.op = "current") =>
        LET prev == {i \in ObsIdx : i < Len(hist)}
        IN  prev # {} =>
                LET i == SetMax(prev)
                IN  hist[i].ret # Raise => Last.ret = hist[i].ret

\* next_song() returned a song, a mutator put another playlist in place, and
\* current_song() still returned that song.
C1_Witness ==
    /\ Len(hist) >= 3
    /\ Last.op = "current"
    /\ hist[Len(hist) - 1].op \in {"clear", "set_oracle", "interrupt"}
    /\ hist[Len(hist) - 1].op # "clear" => NonEmpty(hist[Len(hist) - 1].arg)
    /\ hist[Len(hist) - 2].op = "advance"
    /\ hist[Len(hist) - 2].ret # None
    /\ Last.ret = hist[Len(hist) - 2].ret

\* The history is: children added or set, the first current_song() -> None,
\* more current_song() calls, a non-empty playlist added or set at m, then
\* only current_song() calls up to the last call.
SticksAt(m) ==
    /\ under_test.type \in {"Chain", "Switch"}
    /\ ObsIdx # {}
    /\ LET f == SetMin(ObsIdx)
       IN  /\ Only({"add", "set_oracle"}, 1, f - 1)
           /\ hist[f].op = "current" /\ hist[f].ret = None
           /\ f < m /\ m < Len(hist)
           /\ Only({"current"}, f + 1, m - 1)
           /\ hist[m].op \in {"add", "set_oracle"} /\ NonEmpty(hist[m].arg)
           /\ Only({"current"}, m + 1, Len(hist) - 1)

\* C2: after a first current_song() that returned None, and a non-empty
\* playlist p added (Chain) or set (Switch), current_song() still returns
\* None and the next next_song() returns p's first song.
C2_MemoizedNoneSticks ==
    \A m \in 1..Len(hist) :
        SticksAt(m) =>
            /\ Last.op = "current" => Last.ret = None
            /\ Last.op = "advance" => Last.ret = hist[m].arg.playlist[1]

\* A chain holding an empty child: current, add(p), current, next_song.
C2_Witness ==
    /\ Len(hist) = 5
    /\ SticksAt(3)
    /\ under_test.type = "Chain"
    /\ EmptyChild(hist[1].arg)
    /\ hist[4].op = "current" /\ hist[4].ret = None
    /\ Last.op = "advance" /\ Last.ret = hist[3].arg.playlist[1]

\* The history is add() calls and then, as the first call that observes the
\* chain, the next_song() call just made.
DirectAdvance ==
    /\ under_test.type = "Chain"
    /\ Len(hist) > 0
    /\ Last.op = "advance"
    /\ Only({"add"}, 1, Len(hist) - 1)

\* The children of the chain in a DirectAdvance history (add(None) adds none).
AddedIdx == {i \in 1..Len(hist) - 1 : hist[i].arg.type # "None"}
FirstNonEmptyIdx == SetMin({i \in AddedIdx : NonEmpty(hist[i].arg)})

\* C3 as stated: the first next_song() on a chain never observed returns the
\* second song of the first non-empty child, empty children or not.
C3_SkipFirstAnyChildren ==
    (DirectAdvance /\ \E i \in AddedIdx : NonEmpty(hist[i].arg)) =>
        LET p == hist[FirstNonEmptyIdx].arg.playlist
        IN  Len(p) >= 2 => Last.ret = p[2]

\* C3 amended: the second song when the first child holds two songs or more;
\* the FIRST song of the first non-empty child when empty children precede it.
C3_SkipFirstOfFirstChild ==
    (DirectAdvance /\ \E i \in AddedIdx : NonEmpty(hist[i].arg)) =>
        LET p == hist[FirstNonEmptyIdx].arg.playlist
        IN  IF FirstNonEmptyIdx = SetMin(AddedIdx)
            THEN Len(p) >= 2 => Last.ret = p[2]
            ELSE Last.ret = p[1]

C3_Witness ==
    /\ DirectAdvance
    /\ Len(hist) = 3
    /\ NonEmpty(hist[1].arg) /\ Len(hist[1].arg.playlist) >= 2
    /\ NonEmpty(hist[2].arg)
    /\ Last.ret = hist[1].arg.playlist[2]

\* C8: no current_song() or next_song() call raises.
C8_NeverRaises == \A i \in 1..Len(hist) : hist[i].ret # Raise

\* The last call is a next_song(); before it a non-empty playlist was added
\* at m, right after a next_song() that returned None (current_song() calls
\* aside), and since m the chain was only observed.
AppendedAfterNothing(m) ==
    /\ under_test.type = "Chain"
    /\ 1 < m /\ m < Len(hist)
    /\ hist[m].op = "add" /\ NonEmpty(hist[m].arg)
    /\ AdvIdx(1, m - 1) # {}
    /\ LET a == SetMax(AdvIdx(1, m - 1))
       IN  hist[a].ret = None /\ Only({"current"}, a + 1, m - 1)
    /\ Only({"current", "advance"}, m + 1, Len(hist))
    /\ Last.op = "advance"

\* The t-th next_song() since m returned the t-th song of the playlist added at m.
ReturnsFromStart(m) ==
    LET p == hist[m].arg.playlist
        t == Cardinality(AdvIdx(m + 1, Len(hist)))
    IN  t <= Len(p) => Last.ret = p[t]

C10_EmptyFirstChild ==
    (/\ under_test.type = "Chain"
     /\ ObsIdx # {}
     /\ LET f == SetMin(ObsIdx)
        IN  /\ f > 2
            /\ Only({"add"}, 1, f - 1)
            /\ EmptyChild(hist[1].arg)
            /\ \E i \in 2..f - 1 : NonEmpty(hist[i].arg)
            /\ hist[f].op = "current"
            /\ Only({"advance"}, f + 1, Len(hist)))
    => LET f == SetMin(ObsIdx)
           p == hist[SetMin({i \in 2..f - 1 : NonEmpty(hist[i].arg)})].arg.playlist
           t == Len(hist) - f
       IN  /\ hist[f].ret = None
           /\ (t >= 1 /\ t <= Len(p)) => Last.ret = p[t]

----------------------------------------------------------------------------
(* The same Controller statement by statement, with the two threads that   *)
(* reach the tree: the console thread runs play and queue commands, the    *)
(* libvlc event thread runs cb once it has been attached.  The source      *)
(* takes no lock and posts to no queue around any of these statements.     *)

ThreadNames == {"P", "s3"}

Begin(t, op, name, label, songs) ==
    /\ pc[t] = "idle"
    /\ Len(calls) < MaxThreadOps
    /\ calls' = Append(calls, [op |-> op, arg |-> name, raised |-> FALSE,
                               advanced |-> <<>>, played |-> <<>>])
    /\ pc' = [pc EXCEPT ![t] = label]
    /\ local' = [local EXCEPT ![t].songs = songs]
    /\ UNCHANGED <<interrupt_oracle, vlc_player, oracleVars, otherVars>>

Step(t, from, to, tree) ==
    /\ pc[t] = from
    /\ pc' = [pc EXCEPT ![t] = to]
    /\ interrupt_oracle' = tree
    /\ UNCHANGED <<vlc_player, calls, local, oracleVars, otherVars>>

\* Controller.play: songs = self.media_library.get(song_alias)
PlayGet ==
    \E name \in ThreadNames :
        Begin("console", "play", name, "play_set_oracle", MediaLibrary_get(name).songs)

\* self.queueing_oracle = ChainOracle(); self.switch_oracle.set_oracle(...)
PlaySetOracle ==
    Step("console", "play_set_oracle", "play_add",
         [interrupt_oracle EXCEPT !.default_oracle = SwitchOracle_set_oracle(@, ChainOracle)])

\* self.queueing_oracle.add(PlaylistOracle(songs))
PlayAdd ==
    Step("console", "play_add", "play_clear_interrupt",
         [interrupt_oracle EXCEPT !.default_oracle.oracle =
              ChainOracle_add(@, PlaylistOracle(local["console"].songs))])

\* self.interrupt_oracle.clear_interrupt(); then self.vlc_player.next_song()
PlayClearInterrupt ==
    Step("console", "play_clear_interrupt", "next_song",
         InterruptOracle_clear_interrupt(interrupt_oracle))

\* Controller.queue: songs = self.media_library.get(song_alias)
QueueGet ==
    \E name \in ThreadNames :
        Begin("console", "queue", name, "queue_add", MediaLibrary_get(name).songs)

\* self.queueing_oracle.add(PlaylistOracle(songs))
QueueAdd ==
    Step("console", "queue_add", "idle",
         [interrupt_oracle EXCEPT !.default_oracle.oracle =
              ChainOracle_add(@, PlaylistOracle(local["console"].songs))])

\* The event manager calls cb, attached to it, on the libvlc event thread.
Cb ==
    /\ vlc_player.attached > 0
    /\ Begin("vlc", "cb", "", "next_song", <<>>)

\* Player.next_song: self.stop()
NextSongStop ==
    \E t \in Threads :
        /\ pc[t] = "next_song"
        /\ pc' = [pc EXCEPT ![t] = "new_mp"]
        /\ vlc_player' = [vlc_player EXCEPT !.playing = None]
        /\ UNCHANGED <<interrupt_oracle, calls, local, oracleVars, otherVars>>

\* self.mp = vlc.MediaPlayer(); the call self.current_oracle.next_song() begins
NextSongEnterOracle ==
    \E t \in Threads :
        /\ pc[t] = "new_mp"
        /\ pc' = [pc EXCEPT ![t] = "in_oracle"]
        /\ vlc_player' = [vlc_player EXCEPT !.mp = @ + 1]
        /\ UNCHANGED <<interrupt_oracle, calls, local, oracleVars, otherVars>>

\* the call self.current_oracle.next_song() returns; if next_song is None: return
NextSongLeaveOracle ==
    \E t \in Threads :
        \E r \in {next_song(interrupt_oracle)} :
            /\ pc[t] = "in_oracle"
            /\ interrupt_oracle' = r.o
            /\ local' = [local EXCEPT ![t].next_song = r.r]
            /\ pc' = [pc EXCEPT ![t] = IF r.r \in {None, Raise} THEN "idle" ELSE "play_song"]
            /\ UNCHANGED <<vlc_player, calls, oracleVars, otherVars>>

\* self.play_song(next_song); self.manager.event_attach(..., next_song_cb(self))
NextSongPlay ==
    \E t \in Threads :
        /\ pc[t] = "play_song"
        /\ pc' = [pc EXCEPT ![t] = "idle"]
        /\ vlc_player' = [vlc_player EXCEPT !.playing = local[t].next_song,
                                            !.attached = @ + 1]
        /\ UNCHANGED <<interrupt_oracle, calls, local, oracleVars, otherVars>>

ThreadNext ==
    \/ PlayGet
    \/ PlaySetOracle
    \/ PlayAdd
    \/ PlayClearInterrupt
    \/ QueueGet
    \/ QueueAdd
    \/ Cb
    \/ NextSongStop
    \/ NextSongEnterOracle
    \/ NextSongLeaveOracle
    \/ NextSongPlay

ThreadSpec == CtlInit /\ [][ThreadNext]_vars

----------------------------------------------------------------------------
(* The device snapshots: list_devices() and set_device() on the            *)
(* Controller, free() and device_for_index() on any snapshot made so far.  *)

\* No call made on an oracle under test.
OracleStart ==
    /\ under_test = ChainOracle
    /\ hist = <<>>

DevInit ==
    /\ OracleStart
    /\ CtlStart
    /\ \E n \in 0..MaxDevices : DevStart(n)
    /\ MuxStart
    /\ SrvStart(FALSE, FALSE, FALSE)
    /\ TypeStart

\* A device call on snapshot s, which gave `gave`.
DevCall(op, s, index, gave) ==
    /\ dev_call' = [op |-> op, snap |-> s, index |-> index,
                    valid |-> snapshots[s].valid,
                    raised |-> gave.raised, device |-> gave.device]
    /\ UNCHANGED notDevVars

ListDevices ==
    /\ Len(snapshots) <= MaxLists
    /\ \E n \in 0..MaxDevices :
          \E did \in {Controller_list_devices(snapshots, devices, n)} :
              /\ snapshots' = did.snaps
              /\ devices' = did.held
              /\ DevCall("list_devices", devices, 0, Gave("", None))

SetDevice ==
    \E device_idx \in 0..MaxDevices :
        /\ DevCall("set_device", devices, device_idx,
                   Controller_set_device(snapshots, devices, device_idx))
        /\ UNCHANGED <<snapshots, devices>>

Free ==
    \E s \in 1..Len(snapshots) :
        /\ snapshots' = [snapshots EXCEPT ![s] = AudioDevices_free(@)]
        /\ DevCall("free", s, 0, Gave("", None))
        /\ UNCHANGED devices

DeviceForIndex ==
    \E s \in 1..Len(snapshots), index \in 0..MaxDevices :
        /\ DevCall("device_for_index", s, index,
                   AudioDevices_device_for_index(snapshots[s], index))
        /\ UNCHANGED <<snapshots, devices>>

DevNext ==
    \/ ListDevices
    \/ SetDevice
    \/ Free
    \/ DeviceForIndex

DevSpec == DevInit /\ [][DevNext]_vars

----------------------------------------------------------------------------
(* The muxer and one client: register calls, then the client connects,     *)
(* sends text and binary frames and closes, while handle_session runs its  *)
(* frame loop and the handler's accept returns or raises.                  *)

MuxInit ==
    /\ OracleStart
    /\ CtlStart
    /\ DevStart(0)
    /\ MuxStart
    /\ SrvStart(FALSE, FALSE, FALSE)
    /\ TypeStart

Outcomes == {"return", "CloseConnectionException", "ClientError", "Exception"}

Connected == session # NoSession

\* The session becomes `conn`.
MuxStep(conn) ==
    /\ session' = conn
    /\ UNCHANGED <<servers, regs, notMuxVars>>

\* register calls are made while the client has yet to connect: the one
\* handle_session call does not read the map after that.
Register ==
    /\ regs < MaxRegs
    /\ ~Connected
    /\ \E path \in Paths \cup {BadPath}, server \in Handlers :
          /\ servers' = WebsocketMuxer_register(servers, path, server).servers
          /\ regs' = regs + 1
          /\ UNCHANGED <<session, notMuxVars>>

Connect ==
    /\ ~Connected
    /\ \E path \in Paths : MuxStep(handle_session_begin(servers, path))

ClientSend ==
    /\ Connected
    /\ Len(session.frames) < MaxFrames
    /\ ~session.client_closed
    /\ \E kind \in {"text", "binary"} :
          MuxStep([session EXCEPT !.frames = Append(@, kind)])

ClientClose ==
    /\ Connected
    /\ ~session.client_closed
    /\ MuxStep([session EXCEPT !.client_closed = TRUE])

Take ==
    /\ Connected
    /\ session.pc = "recv"
    /\ session.taken < Len(session.frames)
    /\ MuxStep(handle_session_take(session))

Accepted ==
    /\ Connected
    /\ session.pc = "accept"
    /\ \E outcome \in Outcomes, k \in 0..MaxEvents :
          \E words \in IF outcome = "ClientError" THEN Reasons ELSE {<<>>} :
              MuxStep(handle_session_accepted(session, outcome, words, k))

Finish ==
    /\ Connected
    /\ session.pc = "recv"
    /\ session.taken = Len(session.frames)
    /\ session.client_closed
    /\ MuxStep(handle_session_finish(session))

MuxNext ==
    \/ Register
    \/ Connect
    \/ ClientSend
    \/ ClientClose
    \/ Take
    \/ Accepted
    \/ Finish

MuxSpec == MuxInit /\ [][MuxNext]_vars

----------------------------------------------------------------------------
(* The command server: accept calls on one MediaServer, with the debug     *)
(* flag overridden between them as the tests do.                           *)

SrvInit ==
    /\ OracleStart
    /\ CtlStart
    /\ DevStart(0)
    /\ MuxStart
    /\ \E playing_state \in BOOLEAN, dbg \in BOOLEAN, throws \in BOOLEAN :
          SrvStart(playing_state, dbg, throws)
    /\ TypeStart

Accept ==
    /\ Len(srv_calls) < MaxAccepts
    /\ \E command_str \in Frames :
          \E did \in {MediaServer_accept(debug, controller, command_str)} :
              /\ controller' = did.c
              /\ srv_calls' = Append(srv_calls,
                     [frame |-> command_str, debug |-> debug,
                      before |-> controller, after |-> did.c,
                      done |-> did.done])
    /\ UNCHANGED <<debug, notSrvVars>>

\* FLAGS.override_flag("debug", value)
OverrideFlag ==
    /\ \E value \in BOOLEAN : debug' = value
    /\ UNCHANGED <<controller, srv_calls, notSrvVars>>

SrvNext ==
    \/ Accept
    \/ OverrideFlag

SrvSpec == SrvInit /\ [][SrvNext]_vars

----------------------------------------------------------------------------
(* Messages: constructed from keyword arguments or parsed from a frame     *)
(* (the same validation either way), and made by wrap().                   *)

MsgInit ==
    /\ OracleStart
    /\ CtlStart
    /\ OtherStart

MsgCall(op, event, command, done) ==
    /\ Len(msg_calls) < MaxMessages
    /\ msg_calls' = Append(msg_calls,
           [op |-> op, event |-> event, command |-> command, done |-> done])
    /\ UNCHANGED notMsgVars

NewMessage ==
    \E op \in {"Message", "parse_raw"} :
        \E event \in EVENTS \cup {"None", "invalid"},
           command \in COMMANDS \cup {"None", "invalid"} :
            MsgCall(op, event, command, Message_init(event, command))

WrapCommand == \E self \in COMMANDS : MsgCall("wrap", "None", self, Command_wrap(self))

WrapEvent == \E self \in EVENTS : MsgCall("wrap", self, "None", Event_wrap(self))

MsgNext ==
    \/ NewMessage
    \/ WrapCommand
    \/ WrapEvent

MsgSpec == MsgInit /\ [][MsgNext]_vars

----------------------------------------------------------------------------
(* A client paging through a list; it asks for the first page with the     *)
(* empty token, or for a next page with a token it was given, while the    *)
(* list is edited.  page_calls[i].from is the call that gave the token.    *)

\* The list as the program has it: n elements.
ListOf(n) == [i \in 1..n |-> IF i = 2 THEN -1 ELSE 4 + i]
Elements == {-1, -2, 5}

PageInit ==
    /\ OracleStart
    /\ CtlStart
    /\ DevStart(0) /\ MuxStart /\ SrvStart(FALSE, FALSE, FALSE)
    /\ MsgStart /\ LibStart
    /\ \E n \in 0..MaxList : PageStart(ListOf(n))

NEdits == Cardinality({i \in 1..Len(page_calls) : page_calls[i].op = "edit"})

PageCall(op, from, token, max_length, gave) ==
    /\ Len(page_calls) < MaxPageOps
    /\ page_calls' = Append(page_calls,
           [op |-> op, from |-> from, token_in |-> token, max_length |-> max_length,
            listing |-> listing', raised |-> gave.raised, page |-> gave.page,
            token_out |-> page_to_string(gave.token)])
    /\ UNCHANGED notPageVars

GetPage ==
    \E from \in 0..Len(page_calls), max_length \in 1..MaxPageLen :
        /\ from > 0 => (page_calls[from].op = "page" /\ page_calls[from].token_out # <<>>)
        /\ UNCHANGED listing
        /\ \E token \in {IF from = 0 THEN <<>> ELSE page_calls[from].token_out} :
              PageCall("page", from, token, max_length,
                       get_output_page(listing, max_length, string_to_page(token)))

Edited == PageCall("edit", 0, <<>>, 0, PageGave("", <<>>, NoPage))

AddElement ==
    /\ NEdits < MaxEdits
    /\ Len(listing) < MaxList
    /\ \E e \in Elements : listing' = Append(listing, e)
    /\ Edited

RemoveElement ==
    /\ NEdits < MaxEdits
    /\ \E i \in 1..Len(listing) :
          listing' = SubSeq(listing, 1, i - 1) \o SubSeq(listing, i + 1, Len(listing))
    /\ Edited

ReplaceElement ==
    /\ NEdits < MaxEdits
    /\ \E i \in 1..Len(listing) :
          \E e \in Elements \ {listing[i]} :
              listing' = [listing EXCEPT ![i] = e]
    /\ Edited

PageNext ==
    \/ GetPage
    \/ AddElement
    \/ RemoveElement
    \/ ReplaceElement

PageSpec == PageInit /\ [][PageNext]_vars

----------------------------------------------------------------------------
(* The media library: any sequence of add_song, create_playlist,           *)
(* add_song_to_playlist, remove_from_playlist and get_playlist calls on a  *)
(* MediaLibrary as constructed.                                            *)

Aliases == {"a", "b"}
\* "c" is never added to the library, "r" is never created.
AliasArgs == Aliases \cup {"c"}
PlaylistArgs == {"p", "q", "r", ""}

\* Song(alias, uri): the file of an alias is the one file made for it.
Song(alias) == [alias |-> alias, uri |-> IF alias = "a" THEN 1 ELSE 2]

LibInit ==
    /\ OracleStart
    /\ CtlStart
    /\ OtherStart

LibCall(op, song_alias, playlist_name, gave) ==
    /\ library' = gave.ml
    /\ lib_call' = [op |-> op, song_alias |-> song_alias,
                    playlist_name |-> playlist_name, before |-> library,
                    raised |-> gave.raised, value |-> gave.value]
    /\ UNCHANGED notLibVars

AddSong ==
    \E alias \in Aliases, expect_overwrite \in BOOLEAN :
        LibCall("add_song", alias, "",
                MediaLibrary_add_song(library, Song(alias), expect_overwrite))

CreatePlaylist ==
    \E playlist_name \in PlaylistArgs \ {"r"}, expect_overwrite \in BOOLEAN :
        LibCall("create_playlist", "", playlist_name,
                MediaLibrary_create_playlist(library, playlist_name, expect_overwrite))

AddSongToPlaylist ==
    \E song_alias \in AliasArgs, playlist_name \in PlaylistArgs :
        /\ playlist_name \in DOMAIN library.playlists
               => Len(library.playlists[playlist_name]) < MaxPlaylistLen
        /\ LibCall("add_song_to_playlist", song_alias, playlist_name,
                   MediaLibrary_add_song_to_playlist(library, song_alias, playlist_name))

RemoveFromPlaylist ==
    \E song_alias \in AliasArgs, playlist_name \in PlaylistArgs :
        LibCall("remove_from_playlist", song_alias, playlist_name,
                MediaLibrary_remove_from_playlist(library, song_alias, playlist_name))

GetPlaylist ==
    \E playlist_name \in PlaylistArgs :
        LibCall("get_playlist", "", playlist_name,
                MediaLibrary_get_playlist(library, playlist_name))

LibNext ==
    \/ AddSong
    \/ CreatePlaylist
    \/ AddSongToPlaylist
    \/ RemoveFromPlaylist
    \/ GetPlaylist

LibSpec == LibInit /\ [][LibNext]_vars

----------------------------------------------------------------------------
(* Claims about the Controller and its Player, on `calls`.                 *)

Min(a, b) == IF a < b THEN a ELSE b

Prefix(a, b) == Len(a) <= Len(b) /\ a = SubSeq(b, 1, Len(a))

Resolved(i) == MediaLibrary_get(calls[i].arg).songs

Ran(i, ops) == calls[i].op \in ops /\ ~calls[i].raised

\* The URIs given to play_song during calls lo..hi, in order.
RECURSIVE PlayedIn(_, _)
PlayedIn(lo, hi) ==
    IF lo > hi THEN <<>> ELSE PlayedIn(lo, hi - 1) \o calls[hi].played

\* The URIs queued by the queue calls among calls lo..hi, in order.
RECURSIVE QueuedIn(_, _)
QueuedIn(lo, hi) ==
    IF lo > hi THEN <<>>
    ELSE QueuedIn(lo, hi - 1) \o (IF Ran(hi, {"queue"}) THEN Resolved(hi) ELSE <<>>)

\* play(P), queue(s), then only calls of the end-of-track callback.
PlayQueueThenAdvances ==
    /\ Len(calls) >= 2
    /\ Ran(1, {"play"}) /\ Ran(2, {"queue"})
    /\ \A i \in 3..Len(calls) : calls[i].op = "next_song"

\* C4: on a fresh Controller, after play(P) and queue(s), the tracks started
\* by play and by the successive end-of-track advances are the URIs of
\* resolve(P) followed by those of resolve(s), once each and in that order,
\* one per advance, and no track is started after the last of them.
C4_PlayThenQueueInOrder ==
    PlayQueueThenAdvances =>
        LET expected == Resolved(1) \o Resolved(2)
            byPlay == IF Resolved(1) = <<>> THEN 0 ELSE 1
        IN  PlayedIn(1, Len(calls)) =
                SubSeq(expected, 1, Min(Len(expected), byPlay + Len(calls) - 2))

C4_Witness ==
    /\ PlayQueueThenAdvances
    /\ Len(calls) = 5
    /\ calls[1].arg = "P" /\ calls[2].arg = "s3"
    /\ PlayedIn(1, 4) = <<1, 2, 3>>
    /\ calls[5].played = <<>>

\* C5: after a play(B) call, with no later play or interrupt_with call, the
\* track play started is the first URI of resolve(B), and the tracks started
\* since are, in order, from the rest of resolve(B) followed by what was
\* queued after that call; nothing left of the earlier chain or of an
\* interrupt is started.
C5_PlayReplacesQueue ==
    \A i \in 1..Len(calls) :
        (/\ Ran(i, {"play"})
         /\ \A j \in (i + 1)..Len(calls) : ~Ran(j, {"play", "interrupt_with"}))
        => /\ calls[i].played = SubSeq(Resolved(i), 1, Min(1, Len(Resolved(i))))
           /\ Prefix(calls[i].played \o PlayedIn(i + 1, Len(calls)),
                     Resolved(i) \o QueuedIn(i + 1, Len(calls)))

C5_Witness ==
    /\ Len(calls) = 4
    /\ Ran(1, {"play"}) /\ calls[1].arg = "P"
    /\ Ran(2, {"interrupt_with"}) /\ calls[2].arg = "P"
    /\ Ran(3, {"play"}) /\ calls[3].arg = "s3" /\ calls[3].played = <<3>>
    /\ calls[4].op = "next_song" /\ calls[4].played = <<>>

\* C6: the end of the track that is playing makes exactly one call of
\* next_song() on the root oracle; the Player starts the URI it returned,
\* or starts nothing and is stopped when it returned nothing.
C6_EndOfTrackAdvancesOnce ==
    /\ \A i \in 1..Len(calls) :
          calls[i].op = "end_reached" =>
              /\ Len(calls[i].advanced) = 1
              /\ calls[i].played =
                     IF calls[i].advanced[1] = None THEN <<>> ELSE calls[i].advanced
    /\ (calls # <<>> /\ calls[Len(calls)].op = "end_reached") =>
              vlc_player.playing =
                  (IF calls[Len(calls)].played = <<>> THEN None
                   ELSE calls[Len(calls)].played[1])

\* A thread is inside a call on the oracle tree.
InTree(t) == pc[t] = "in_oracle"

----------------------------------------------------------------------------
(* Claims about collect(), on the hist of CollectSpec.                     *)

\* The oracle as built.
Built == hist[1].arg

\* What collect() has gathered so far: the current song, then the songs
\* next_song() returned before its first None.
Collected ==
    IF Len(hist) < 2 THEN <<>>
    ELSE <<hist[2].ret>> \o
         SubSeq(Advanced, 1,
                IF Ended
                THEN SetMin({i \in 1..Len(Advanced) : Advanced[i] \in {None, Raise}}) - 1
                ELSE Len(Advanced))

\* collect() has returned.
CollectDone == Ended \/ Len(hist) - 1 >= CollectLimit

\* What was gathered agrees with the list `songs`.
Gathers(songs) ==
    /\ Prefix(Collected, songs)
    /\ CollectDone => Collected = songs

Without(seq, i) == SubSeq(seq, 1, i - 1) \o SubSeq(seq, i + 1, Len(seq))

IsEmptyKid(o) == o.type = "Null" \/ (o.type = "Playlist" /\ o.playlist = <<>>)

IsSongs(o) == o.type = "Playlist" /\ o.playlist # <<>>

\* The collects of the given oracles, each on its own, one after the other.
RECURSIVE CollectEach(_)
CollectEach(kids) ==
    IF kids = <<>> THEN <<>>
    ELSE CollectEach(SubSeq(kids, 1, Len(kids) - 1)) \o collect(kids[Len(kids)])

\* C12: a chain whose children a, b are non-empty Playlists collects to the
\* collect of a followed by the collect of b, each collected on its own.
C12_ChainConcatenates ==
    (/\ Len(hist) >= 2
     /\ Built.type = "Chain" /\ Len(Built.oracles) >= 2
     /\ \A i \in 1..Len(Built.oracles) : IsSongs(Built.oracles[i]))
    => Gathers(CollectEach(Built.oracles))

C12_Witness ==
    /\ Built.type = "Chain" /\ Len(Built.oracles) = 2
    /\ IsSongs(Built.oracles[1]) /\ IsSongs(Built.oracles[2])
    /\ Len(Built.oracles[1].playlist) = 1 /\ Len(Built.oracles[2].playlist) = 2
    /\ CollectDone
    /\ Collected = Built.oracles[1].playlist \o Built.oracles[2].playlist

\* The item a playlist returns at its k-th place, None past its end.
ItemOr(songs, k) == IF k \in 1..Len(songs) THEN songs[k] ELSE None

\* C13: after clear(), however many children were consumed before it,
\* next_song() returns None until a child is added; once a non-empty
\* Playlist p has been added, the next_song() calls return p's first item
\* and then the rest of p in order.
C13_ClearThenAdd ==
    \A c \in 1..Len(hist) :
        (hist[c].op = "clear" /\ Only({"add", "advance"}, c + 1, Len(hist))) =>
            LET added == {i \in (c + 1)..Len(hist) : hist[i].op = "add"}
            IN  /\ \A j \in AdvIdx(c + 1, Len(hist)) :
                       (\A i \in added : i > j) => hist[j].ret = None
                /\ \A a \in added :
                       (added = {a} /\ NonEmpty(hist[a].arg)) =>
                           \A j \in AdvIdx(a + 1, Len(hist)) :
                               hist[j].ret =
                                   ItemOr(hist[a].arg.playlist,
                                          Cardinality(AdvIdx(a + 1, j)))

\* The place of a song in a list of distinct songs, 0 when it is not there.
PlaceIn(songs, song) ==
    IF \E k \in 1..Len(songs) : songs[k] = song
    THEN CHOOSE k \in 1..Len(songs) : songs[k] = song
    ELSE 0

\* Playlist a was added first and observed down to its m-th item, with items
\* left, when a second child was added at call j; only next_song() since.
AddedMidPlay(j, m) ==
    /\ j \in 3..Len(hist)
    /\ hist[1].op = "add" /\ NonEmpty(hist[1].arg)
    /\ hist[j].op = "add" /\ hist[j].arg.type = "Playlist"
    /\ \A i \in 2..(j - 1) : IsObs(hist[i])
    /\ Only({"advance"}, j + 1, Len(hist))
    /\ m \in 1..(Len(hist[1].arg.playlist) - 1)
    /\ PlaceIn(hist[1].arg.playlist, hist[j - 1].ret) = m

\* C14: a child added to a chain while the earlier child still has items
\* left does not change the items still to come from the earlier child:
\* they are returned first, in order, and then the items of the added child
\* from its first one.
C14_AddKeepsItemsToCome ==
    (under_test.type = "Chain") =>
        \A j \in 1..Len(hist) : \A m \in 1..MaxLen :
            AddedMidPlay(j, m) =>
                LET a == hist[1].arg.playlist
                    toCome == SubSeq(a, m + 1, Len(a)) \o hist[j].arg.playlist
                IN  \A i \in (j + 1)..Len(hist) :
                        hist[i].ret = ItemOr(toCome, i - j)

C14_Witness ==
    /\ under_test.type = "Chain"
    /\ Len(hist) = 5
    /\ AddedMidPlay(3, 1)
    /\ NonEmpty(hist[3].arg)
    /\ hist[4].ret = hist[1].arg.playlist[2]
    /\ hist[5].ret = hist[3].arg.playlist[1]

\* At call j the switch, whose child had been observed since it was set, was
\* given the non-empty Playlist hist[j].arg; only next_song() since.
ReplacedObserved(j) ==
    /\ j \in 1..Len(hist)
    /\ hist[j].op = "set_oracle" /\ NonEmpty(hist[j].arg)
    /\ Only({"advance"}, j + 1, Len(hist))
    /\ \E i \in 1..(j - 1) :
          /\ hist[i].op = "set_oracle" /\ hist[i].arg.type # "None"
          /\ \A k \in (i + 1)..(j - 1) : IsObs(hist[k])
          /\ i + 1 <= j - 1

ReplacedReached(j) ==
    /\ ReplacedObserved(j)
    /\ \E i \in 1..(j - 1) :
          /\ hist[i].op = "set_oracle" /\ hist[i].arg.type # "None"
          /\ \A k \in (i + 1)..(j - 1) : IsObs(hist[k])
          /\ \E k \in (i + 1)..(j - 1) :
                hist[k].op = "advance" \/ k = SetMin(ObsIdx)

AdvancedUnobserved(j) ==
    /\ j \in 2..Len(hist)
    /\ hist[j].op = "advance"
    /\ Only({"set_oracle"}, 1, j - 1)
    /\ hist[j - 1].arg.type = "Playlist"

InterruptedAfter(k) ==
    /\ under_test.type = "Interrupt" /\ under_test.default_oracle.type = "Playlist"
    /\ k \in 1..Len(under_test.default_oracle.playlist)
    /\ Len(hist) >= k + 1
    /\ hist[1].op = "current"
    /\ Only({"advance"}, 2, k)
    /\ hist[k + 1].op = "interrupt" /\ hist[k + 1].arg.type = "Playlist"
    /\ Only({"advance"}, k + 2, Len(hist))

\* C17: after interrupt(p) on an Interrupt whose default Playlist d had k
\* items consumed, the next_song() calls return the items of p in order
\* from its first, then the items of d after the k-th in order, none of
\* them skipped or repeated.
C17_InterruptThenRest ==
    \A k \in 1..MaxLen :
        InterruptedAfter(k) =>
            LET d == under_test.default_oracle.playlist
                toCome == hist[k + 1].arg.playlist \o SubSeq(d, k + 1, Len(d))
            IN  \A i \in (k + 2)..Len(hist) :
                    hist[i].ret = ItemOr(toCome, i - k - 1)

C17_Witness ==
    /\ InterruptedAfter(1)
    /\ Len(hist) = 5
    /\ Len(hist[2].arg.playlist) = 2
    /\ hist[3].ret = hist[2].arg.playlist[1]
    /\ hist[4].ret = hist[2].arg.playlist[2]
    /\ hist[5].ret = under_test.default_oracle.playlist[2]


\* Every next_song() made after one returned None also returned None.
Absorbing ==
    \A i \in 1..Len(Advanced) : \A j \in i..Len(Advanced) :
        Advanced[i] = None => Advanced[j] = None

\* C18: a Playlist of a non-empty list collects to exactly that list, in
\* order, and every next_song() after the first None returns None.
C18_PlaylistLaw ==
    (Len(hist) >= 2 /\ IsSongs(Built)) =>
        /\ Gathers(Built.playlist)
        /\ Absorbing

C18_Witness ==
    /\ IsSongs(Built) /\ Len(Built.playlist) = MaxLen
    /\ CollectDone /\ Collected = Built.playlist
    /\ Cardinality({i \in 1..Len(Advanced) : Advanced[i] = None}) > MaxAfter


\* seq, m times over.
RECURSIVE Repeated(_, _)
Repeated(seq, m) == IF m <= 0 THEN <<>> ELSE seq \o Repeated(seq, m - 1)

\* The least number of times seq fills the list collect() gathers.
Fills(seq) == (CollectLimit + Len(seq) - 1) \div Len(seq)

\* What collect() returns for the songs an oracle holds: the first
\* CollectLimit of them, [None] when there are none.
CollectOf(songs) ==
    IF songs = <<>> THEN <<None>>
    ELSE SubSeq(songs, 1, Min(Len(songs), CollectLimit))

\* The `times` a RepeatingOracle was built with.
TimesGiven(o) == o.times + 1

\* C19: a RepeatingOracle built with a non-empty list and a number n >= 0
\* of times collects to the list repeated min(n, ceil(100 / len)) times,
\* cut at 100 items.
C19_RepeatingLaw ==
    (/\ Len(hist) >= 2
     /\ Built.type = "Repeating" /\ ~Built.forever /\ ~Built.playlist_is_none
     /\ Built.playlist # <<>>)
    => Gathers(CollectOf(Repeated(Built.playlist,
                                  Min(TimesGiven(Built), Fills(Built.playlist)))))


\* The Chain the Controller queues on.
QueueingOracle(tree) == tree.default_oracle.oracle

\* The step is a queue_repeat call whose name resolves in the library.
QueueRepeatStep ==
    /\ Len(calls') = Len(calls) + 1
    /\ calls'[Len(calls')].op = "queue_repeat"
    /\ ~MediaLibrary_get(calls'[Len(calls')].arg).raised

\* C20: a queue_repeat call whose name resolves does not raise and appends
\* one Repeating child of the resolved songs to the end of the Chain; the
\* children already there, the Chain's position and the Player stay as
\* they were.
C20_QueueRepeatAppends ==
    [][QueueRepeatStep =>
        /\ ~calls'[Len(calls')].raised
        /\ \E rep \in RepeatArgs :
              QueueingOracle(interrupt_oracle').oracles =
                  Append(QueueingOracle(interrupt_oracle).oracles,
                         RepeatingOracle(MediaLibrary_get(calls'[Len(calls')].arg).songs,
                                         FALSE, rep.times, rep.forever))
        /\ QueueingOracle(interrupt_oracle').pointer =
               QueueingOracle(interrupt_oracle).pointer
        /\ vlc_player' = vlc_player]_vars


\* The last call looked an index up: device_for_index, or set_device
\* through it.
LookedUp == dev_call.op \in {"device_for_index", "set_device"}

\* C21: device_for_index on a freed snapshot, whatever the index, raises
\* UseAfterFreeException and returns no device; of the snapshots taken so
\* far none but the one list_devices() took last is valid, and no snapshot
\* is released twice.
C21_UseAfterFree ==
    /\ (LookedUp /\ ~dev_call.valid) =>
           (dev_call.raised = "UseAfterFreeException" /\ dev_call.device = None)
    /\ \A s \in 1..Len(snapshots) :
           /\ snapshots[s].valid => (s = Len(snapshots) /\ s = devices)
           /\ snapshots[s].released <= 1

C21_Witness ==
    /\ dev_call.op = "device_for_index" /\ dev_call.raised = "UseAfterFreeException"
    /\ dev_call.snap = 1 /\ Len(snapshots) = MaxLists + 1
    /\ dev_call.index + 1 \in DOMAIN snapshots[1].user_device_map
    /\ snapshots[devices].valid


\* The accept calls made for frame n of the session.
Accepts(n) == {i \in 1..Len(session.log) : session.log[i].frame = n}

\* C22: every accept call of the session went to the handler registered
\* at exactly the session's path; with no handler at that path the
\* connection was closed with UNSUPPORTED_URI and the reason
\* "path '<p>' not found", and accept was never called.
C22_PathRouting ==
    Connected =>
        /\ \A i \in 1..Len(session.log) :
               /\ session.log[i].server = servers[session.path]
               /\ session.log[i].server \in Handlers
        /\ servers[session.path] = NoServer =>
               /\ session.pc = "closed"
               /\ session.close = NotFoundClose(session.path)
               /\ session.log = <<>>
        /\ servers[session.path] # NoServer => session.close.code # "UNSUPPORTED_URI"

C22_Witness ==
    /\ Connected /\ session.path = "/test1/"
    /\ servers["/test1"] = "h1" /\ servers["/test2"] = "h2"
    /\ session.close = NotFoundClose("/test1/")
    /\ Len(session.frames) = MaxFrames /\ session.log = <<>>

\* Frame n, already taken, was fatal: a binary frame, or a text frame whose
\* accept raised ClientError or CloseConnectionException.
Fatal(n) ==
    \/ session.frames[n] = "binary"
    \/ \E i \in Accepts(n) :
          session.log[i].outcome \in {"ClientError", "CloseConnectionException"}

\* The close a fatal frame n calls for.
FatalClose(n) ==
    IF session.frames[n] = "binary" THEN BadClientClose(BinaryReason)
    ELSE LET i == CHOOSE i \in Accepts(n) : TRUE
         IN  IF session.log[i].outcome = "ClientError"
             THEN BadClientClose(session.log[i].words)
             ELSE NormalClose

\* C23: a binary frame, and a text frame whose accept raised ClientError,
\* close the connection with BAD_CLIENT and the error's reason; a text
\* frame whose accept raised CloseConnectionException closes it normally;
\* a binary frame is never passed to accept, and no frame after a fatal
\* one is taken from the connection.
C23_FatalFrames ==
    Connected =>
        \A n \in 1..session.taken :
            /\ session.frames[n] = "binary" => Accepts(n) = {}
            /\ Fatal(n) =>
                   /\ session.pc = "closed"
                   /\ session.close = FatalClose(n)
                   /\ session.taken = n
                   /\ \A i \in 1..Len(session.log) : session.log[i].frame <= n

C23_Witness ==
    /\ Connected /\ session.taken = 2 /\ Len(session.frames) = 3
    /\ session.frames = <<"text", "binary", "text">>
    /\ session.close = BadClientClose(BinaryReason)
    /\ Len(session.log) = 1 /\ session.log[1].outcome = "return"

\* The reason of the ClientError that closed the session.
ErrorReason ==
    IF session.frames[session.taken] = "binary" THEN BinaryReason
    ELSE session.log[Len(session.log)].words

\* The bytes of " <trunc>".
TruncBytes == 8

\* The bytes of the reason a close passes to the transport.
CloseBytes(close) == Bytes(close.words) + (IF close.trunc THEN TruncBytes ELSE 0)

\* C24: the reason of a BAD_CLIENT close is at most ReasonLimit bytes long:
\* the error's reason as it is when that fits, else its words up to a word
\* boundary followed by " <trunc>".
C24_CloseReasonBound ==
    (Connected /\ session.close.code = "BAD_CLIENT") =>
        /\ CloseBytes(session.close) <= ReasonLimit
        /\ IF Bytes(ErrorReason) <= ReasonLimit
           THEN session.close.words = ErrorReason /\ ~session.close.trunc
           ELSE session.close.trunc /\ Prefix(session.close.words, ErrorReason)

\* The text frames among the first n frames of the session, by their number.
TextFrames(n) == {i \in 1..n : session.frames[i] = "text"}

\* Event a was sent no later than event b: frame by frame, and within a
\* frame in the order of the handler's send calls.
SentBefore(a, b) == a[1] < b[1] \/ (a[1] = b[1] /\ a[2] <= b[2])

\* C25: the text frames taken from the connection were passed to accept in
\* the order they were received, once each; accept of a frame has ended
\* before the next frame is passed; the events went to the client in the
\* order the handler sent them.
C25_FramesInOrder ==
    Connected =>
        /\ {session.log[i].frame : i \in 1..Len(session.log)} = TextFrames(session.taken)
        /\ \A i, j \in 1..Len(session.log) :
               i < j => session.log[i].frame < session.log[j].frame
        /\ \A i \in 1..Len(session.log) :
               session.log[i].outcome = "running" =>
                   (i = Len(session.log) /\ session.pc = "accept")
        /\ \A i, j \in 1..Len(session.sent) :
               i < j => SentBefore(session.sent[i], session.sent[j])

C25_Witness ==
    /\ Connected /\ Len(session.log) = MaxFrames
    /\ \A i \in 1..Len(session.log) :
           session.log[i].frame = i /\ session.log[i].outcome = "return"
    /\ Len(session.sent) = MaxFrames * MaxEvents

\* C26: an accept that ends with an exception other than ClientError and
\* CloseConnectionException does not end the session: handle_session goes
\* on with the frame loop.
C26_OtherFailuresNotFatal ==
    Connected =>
        \A i \in 1..Len(session.log) :
            session.log[i].outcome = "Exception" =>
                session.pc \in {"recv", "accept", "closed", "finished"}

----------------------------------------------------------------------------
(* Claims about the command server, on srv_calls of SrvSpec.               *)

\* The accept calls that handed a TOGGLE_PLAY frame with a payload among ps
\* to a controller whose calls do not raise.
TogglePlayCalls(ps) ==
    {i \in 1..Len(srv_calls) :
        /\ srv_calls[i].frame.json
        /\ srv_calls[i].frame.command_name = "TOGGLE_PLAY"
        /\ srv_calls[i].frame.payload \in ps
        /\ ~srv_calls[i].before.throws}

\* accept returned a success response that reports new_play_state.
RepliedPlayState(done, new_play_state) ==
    /\ done.raised = ""
    /\ done.value.type = "TogglePlayResponse"
    /\ done.value.fields.new_play_state = new_play_state

\* accept returned an error response.
RepliedError(done) ==
    /\ done.raised = ""
    /\ done.value.type = "ErrorResponse"

\* C27: handling TOGGLE_PLAY with play_state unset (payload absent, empty
\* or with a null play_state) calls toggle_pause() exactly once and
\* set_pause() not at all, leaves playing() the opposite of what it was,
\* and replies with a success response whose new_play_state is that
\* opposite.
C27_ToggleWithoutPlayState ==
    \A i \in TogglePlayCalls({"absent", "{}", "null"}) :
        /\ srv_calls[i].after.toggle_pause_calls
               = srv_calls[i].before.toggle_pause_calls + 1
        /\ srv_calls[i].after.set_pause_calls = srv_calls[i].before.set_pause_calls
        /\ srv_calls[i].after.playing_state = ~srv_calls[i].before.playing_state
        /\ RepliedPlayState(srv_calls[i].done, ~srv_calls[i].before.playing_state)

\* C28: handling TOGGLE_PLAY with play_state b leaves playing() equal to b
\* and replies new_play_state b, whatever playing() was before; the same
\* command handled again right after leaves the same state and gives the
\* same reply.
C28_ExplicitPlayStateIdempotent ==
    \A i \in TogglePlayCalls({"true", "false"}) :
        /\ srv_calls[i].after.playing_state = (srv_calls[i].frame.payload = "true")
        /\ RepliedPlayState(srv_calls[i].done, srv_calls[i].frame.payload = "true")
        /\ (i > 1 /\ srv_calls[i - 1].frame = srv_calls[i].frame
                  /\ ~srv_calls[i - 1].before.throws)
              => /\ srv_calls[i].after.playing_state
                        = srv_calls[i - 1].after.playing_state
                 /\ srv_calls[i].done = srv_calls[i - 1].done

\* The accept calls whose command handler called a controller that raises.
HandlerRaised ==
    {i \in 1..Len(srv_calls) :
        /\ srv_calls[i].frame.json
        /\ srv_calls[i].frame.command_name = "TOGGLE_PLAY"
        /\ srv_calls[i].before.throws}

\* C29: accept returns a response for every frame and lets no exception
\* escape; when the controller call of the handler raises, the response
\* is an error response whose status is INTERNAL_ERROR.
C29_DispatchNeverThrows ==
    /\ \A i \in 1..Len(srv_calls) :
          /\ srv_calls[i].done.raised = ""
          /\ srv_calls[i].done.value # NoValue
    /\ \A i \in HandlerRaised :
          /\ RepliedError(srv_calls[i].done)
          /\ HasAttr("CommandStatus")
          /\ srv_calls[i].done.value.fields.command_status
                 = c_types.CommandStatus.INTERNAL_ERROR

\* The accept calls made with debug false on a frame that does not parse
\* into a known command, or whose handler raised.
ProductionFailures ==
    {i \in 1..Len(srv_calls) :
        /\ ~srv_calls[i].debug
        /\ \/ ~srv_calls[i].frame.json
           \/ srv_calls[i].frame.command_name \in {NoName, "florbus"}
           \/ i \in HandlerRaised}

\* C30: with debug false, a frame that fails to parse and a frame whose
\* handler raised are each answered by an error response, and that
\* response carries no error_data.
C30_ProductionRedaction ==
    \A i \in ProductionFailures :
        /\ RepliedError(srv_calls[i].done)
        /\ "error_data" \notin DOMAIN srv_calls[i].done.value.fields

\* The accept calls made with debug false whose try block ended in an
\* exception other than ErrorResponse: the frame is not JSON, or the
\* controller call of the handler raised.
ProductionInternalErrors ==
    {i \in 1..Len(srv_calls) :
        /\ ~srv_calls[i].debug
        /\ (~srv_calls[i].frame.json \/ i \in HandlerRaised)}

\* The message an INTERNAL_ERROR response carries in production.
GenericMessage == "Unexpected error encountered."

\* C31: with debug false, accept answers a failure inside the server with
\* an error response whose error_message is the one generic string,
\* whichever exception was raised, so that two such calls that differ in
\* the exception only are answered alike.
C31_GenericInternalMessage ==
    /\ \A i \in ProductionInternalErrors :
          /\ RepliedError(srv_calls[i].done)
          /\ srv_calls[i].done.value.fields.error_message = GenericMessage
    /\ \A i, j \in ProductionInternalErrors :
          srv_calls[i].done = srv_calls[j].done

\* The accept calls on a frame that fails parsing or validation: not JSON,
\* no command_name, or a command_name that is no command.
InvalidFrames ==
    {i \in 1..Len(srv_calls) :
        \/ ~srv_calls[i].frame.json
        \/ srv_calls[i].frame.command_name \in {NoName, "florbus"}}

\* C32: a frame that fails parsing or validation is answered by an error
\* response of status CLIENT_ERROR, and no controller method is called
\* for it.
C32_InvalidInputClientError ==
    \A i \in InvalidFrames :
        /\ RepliedError(srv_calls[i].done)
        /\ HasAttr("CommandStatus")
        /\ srv_calls[i].done.value.fields.command_status
               = c_types.CommandStatus.CLIENT_ERROR
        /\ srv_calls[i].after = srv_calls[i].before

----------------------------------------------------------------------------
(* Claims about the message types, on msg_calls of MsgSpec.                *)

\* How many of the two fields of a Message are populated.
Populated(m) ==
    (IF m.event # "None" THEN 1 ELSE 0) + (IF m.command # "None" THEN 1 ELSE 0)

\* C33: a Message that passed validation has exactly one of command and
\* event populated; constructing or parsing one with both given, or with
\* neither, fails validation.
C33_MessageExclusive ==
    \A i \in 1..Len(msg_calls) :
        /\ msg_calls[i].done.raised = "" => Populated(msg_calls[i].done.value) = 1
        /\ Populated(msg_calls[i]) # 1 => msg_calls[i].done.raised = "ValidationError"

\* A Message given both fields and one given neither have been refused, and
\* one with an event only and a wrapped command have been made.
C33_Witness ==
    /\ Len(msg_calls) = 2
    /\ \/ /\ Populated(msg_calls[1]) = 2
          /\ msg_calls[1].event # "invalid" /\ msg_calls[1].command # "invalid"
          /\ msg_calls[1].done.raised = "ValidationError"
          /\ msg_calls[2].op = "wrap"
          /\ msg_calls[2].done.raised = ""
       \/ /\ Populated(msg_calls[1]) = 0
          /\ msg_calls[1].done.raised = "ValidationError"
          /\ msg_calls[2].op = "parse_raw"
          /\ msg_calls[2].done.raised = ""
          /\ Populated(msg_calls[2].done.value) = 1

----------------------------------------------------------------------------
(* Claims about paging, on page_calls of PageSpec.                         *)

\* The page requests made with a token.
TokenCalls == {i \in 1..Len(page_calls) : page_calls[i].from > 0}

\* The request was refused: OutdatedPageException, no page, no token.
Refused(call) ==
    /\ call.raised = "OutdatedPageException"
    /\ call.page = <<>>
    /\ call.token_out = <<>>

RECURSIVE Walk(_)
Walk(i) ==
    IF page_calls[i].from = 0 THEN <<i>> ELSE Append(Walk(page_calls[i].from), i)

\* The pages of the requests of a walk, one after the other.
RECURSIVE Pages(_)
Pages(walk) ==
    IF walk = <<>> THEN <<>>
    ELSE page_calls[Head(walk)].page \o Pages(Tail(walk))

\* The requests that end a walk through an unchanged list with one
\* max_length: no token came back, and every request of the walk saw the
\* same list and asked for the same length.
CompleteWalks ==
    {i \in 1..Len(page_calls) :
        /\ page_calls[i].op = "page"
        /\ page_calls[i].raised = ""
        /\ page_calls[i].token_out = <<>>
        /\ \A k \in 1..Len(Walk(i)) :
              /\ page_calls[Walk(i)[k]].listing = page_calls[i].listing
              /\ page_calls[Walk(i)[k]].max_length = page_calls[i].max_length}

Ceil(a, b) == (a + b - 1) \div b

----------------------------------------------------------------------------
(* Claims about the media library, on library and lib_call of LibSpec.     *)

\* How many times alias occurs in list.
Occurrences(list, alias) == Cardinality({i \in 1..Len(list) : list[i] = alias})

\* C35: after any sequence of calls every alias stored in every playlist
\* is a key of the song map; add_song_to_playlist with a playlist name or
\* an alias that is missing raises NotFoundException and leaves every
\* playlist as it was.
C35_PlaylistIntegrity ==
    /\ \A name \in DOMAIN library.playlists :
          \A i \in 1..Len(library.playlists[name]) :
              library.playlists[name][i] \in DOMAIN library.song_map
    /\ (/\ lib_call.op = "add_song_to_playlist"
        /\ \/ lib_call.playlist_name \notin DOMAIN lib_call.before.playlists
           \/ lib_call.song_alias \notin DOMAIN lib_call.before.song_map)
          => /\ lib_call.raised = "NotFoundException"
             /\ library.playlists = lib_call.before.playlists

\* A playlist holds a song, and adding an alias the library does not have
\* to it has just failed.
C35_Witness ==
    /\ lib_call.op = "add_song_to_playlist"
    /\ lib_call.playlist_name \in DOMAIN lib_call.before.playlists
    /\ Len(lib_call.before.playlists[lib_call.playlist_name]) > 0
    /\ lib_call.song_alias \notin DOMAIN lib_call.before.song_map
    /\ lib_call.raised = "NotFoundException"

\* C36: after remove_from_playlist(alias, name) has returned for a
\* playlist that held alias, the playlist holds one occurrence of alias
\* fewer than before and as many of every other alias.
C36_RemoveTakesEffect ==
    (lib_call.op = "remove_from_playlist" /\ lib_call.raised = "")
        => /\ Occurrences(library.playlists[lib_call.playlist_name],
                          lib_call.song_alias)
                  = Occurrences(lib_call.before.playlists[lib_call.playlist_name],
                                lib_call.song_alias) - 1
           /\ library.playlists[lib_call.playlist_name]
                  = list_remove(lib_call.before.playlists[lib_call.playlist_name],
                                lib_call.song_alias)

----------------------------------------------------------------------------
(* A queue call before any play call, on calls of CtlSpec.                 *)

\* queue(A) on the Controller as constructed, A resolving to a list that is
\* not empty, then only calls of Player.next_song().
QueueThenKicks ==
    /\ Len(calls) >= 1
    /\ Ran(1, {"queue"}) /\ Resolved(1) # <<>>
    /\ \A i \in 2..Len(calls) : calls[i].op = "next_song"

\* C37: on a Controller as constructed, on which play was never called,
\* after queue(A) with resolve(A) not empty the successive kicks of the
\* Player start the URIs of resolve(A) in order from the first one, one per
\* kick: none is skipped, and no kick made while URIs are left starts
\* nothing.
C37_QueueBeforePlay ==
    QueueThenKicks =>
        PlayedIn(2, Len(calls)) =
            SubSeq(Resolved(1), 1, Min(Len(Resolved(1)), Len(calls) - 1))

----------------------------------------------------------------------------
(* The switch and the interrupt before they were observed, on hist of Spec. *)

\* The calls after call j that were next_song().
AdvancesAfter(j) == {i \in (j + 1)..Len(hist) : hist[i].op = "advance"}

\* Where x stands in seq, 0 if it does not.
PositionIn(seq, x) ==
    IF \E i \in 1..Len(seq) : seq[i] = x
    THEN CHOOSE i \in 1..Len(seq) : seq[i] = x
    ELSE 0

\* Call j gave the switch the Playlist hist[j].arg and no set_oracle was
\* called since.
LastSetOracle(j) ==
    /\ j \in 1..Len(hist)
    /\ hist[j].op = "set_oracle" /\ hist[j].arg.type = "Playlist"
    /\ \A i \in (j + 1)..Len(hist) : IsObs(hist[i])

\* C38: on a switch whose child is Playlist(seq), seq of distinct items,
\* with current_song() and next_song() calls only since the child was set,
\* the next_song() calls return items of seq at strictly increasing
\* positions until one returns None, and None from then on: no position
\* is returned twice.
C38_SwitchNeverRepeats ==
    (under_test.type = "Switch") =>
        \A j \in 1..Len(hist) :
            LastSetOracle(j) =>
                \A a \in AdvancesAfter(j) :
                    /\ hist[a].ret # None
                          => PositionIn(hist[j].arg.playlist, hist[a].ret) > 0
                    /\ \A b \in AdvancesAfter(a) :
                          IF hist[a].ret = None THEN hist[b].ret = None
                          ELSE hist[b].ret # None
                                  => PositionIn(hist[j].arg.playlist, hist[b].ret)
                                         > PositionIn(hist[j].arg.playlist, hist[a].ret)

\* interrupt(p), p a Playlist, was the first call made on the
\* Interrupt(default = Playlist d); only next_song() since.
InterruptedUnobserved ==
    /\ under_test.type = "Interrupt" /\ under_test.default_oracle.type = "Playlist"
    /\ Len(hist) >= 1
    /\ hist[1].op = "interrupt" /\ hist[1].arg.type = "Playlist"
    /\ Only({"advance"}, 2, Len(hist))

\* C39: after interrupt(p) on an Interrupt(default = d) on which neither
\* current_song() nor next_song() was ever called, the next_song() calls
\* return the items of p in order and then all items of d in order from
\* d's first item: no item of d is lost.
C39_InterruptBeforeObserved ==
    InterruptedUnobserved =>
        LET toCome == hist[1].arg.playlist \o under_test.default_oracle.playlist
        IN  \A i \in 2..Len(hist) : hist[i].ret = ItemOr(toCome, i - 1)

====
